---- MODULE Spec2Model ----
(***************************************************************************)
(* Model of the activity synchronisation and webhook pipeline of the       *)
(* Strava club hub (Google Apps Script): the Activities sheet, the user    *)
(* Database sheet with its member cache, the persisted sync queue with the *)
(* script lock, the drain trigger and the webhook entry point doPost.      *)
(*                                                                         *)
(* The remote API is an input of each call (status of the request, of the  *)
(* token refresh and of the retry, and the body of a 200 answer).  Logging *)
(* (debugLog) and ChallengeService.updateUserChallengeProgress, which      *)
(* catches its own errors, write none of the modelled state and are left   *)
(* out.  LockService semantics: tryLock / waitLock have no effect on a     *)
(* lock the execution already holds, and releaseLock releases it.          *)
(***************************************************************************)
EXTENDS Integers, Sequences, FiniteSets, TLC

VARIABLES
  clock,        \* current time, in hours
  users,        \* Database sheet: user id -> [accessToken, refreshToken, lastUpdated]
  cache,        \* AppCache entry ALL_MEMBERS: [hit, data]
  acts,         \* Activities sheet: the rows, in sheet order
  tok,          \* last token value issued by the remote token endpoint
  queue,        \* script property userActivityQueue
  triggers,     \* number of project triggers whose handler is processActivitySyncQueue
  lastWebhook,  \* script property LAST_WEBHOOK_TIMESTAMP (-1: never set)
  feedCached,   \* TRUE while the activity / leaderboard caches hold data
  lock,         \* holder of the script lock (0: free)
  run,          \* per execution of processActivitySyncQueue: its position and locals
  participants, \* ChallengeParticipants sheet: user id -> Progress in the active challenge
  last          \* what the most recently finished operation did

vars == <<clock, users, cache, acts, tok, queue, triggers, lastWebhook,
          feedCached, lock, run, participants, last>>

-----------------------------------------------------------------------------
(* Bounds of the model *)

NumUsers == 2       \* rows of the Database sheet
NumQueueUsers == 7  \* rows of the Database sheet in the queue scenarios
NumActs == 2        \* remote activity ids 1..NumActs
MaxTok == 2         \* token values the token endpoint can issue
MaxClock == 4       \* the clock stops advancing here
NumRuns == 2        \* executions that overlap
MaxHalfDays == 3    \* half days the health check is followed for

(* Program constants *)

MAX_USERS_PER_RUN == 5
UPDATE_INTERVAL_HOURS == 4
FIRST_SYNC_DAYS == 30
HEALTH_THRESHOLD_HOURS == 24
DEFAULT_DAYS_TO_SYNC == 3

ALLOWED_ACTIVITY_TYPES == {"Swim"}
ALLOWED_VISIBILITY == {"everyone", "followers_only"}

-----------------------------------------------------------------------------
(* Values *)

NoTime == -1
UnknownUser == 0                         \* an id with no row in the Database sheet
ActIds == 1..NumActs
Owner(a) == IF a <= 2 THEN 1 ELSE 2      \* the athlete the remote reports for activity a
Distances == {100, 200}
Shapes == { <<"Swim", "everyone">>, <<"Swim", "followers_only">>,
            <<"Swim", "only_me">>, <<"Run", "everyone">> }
\* the type and visibility the remote reports: allowed, hidden, of another sport
RemoteShapes == { <<"Swim", "everyone">>, <<"Swim", "only_me">>, <<"Run", "everyone">> }

\* An activity object as the remote API returns it (id 0: the id field is missing).
Activity(a, sh, d) ==
  [id |-> a, athlete |-> Owner(a), type |-> sh[1], visibility |-> sh[2], distance |-> d]

\* the states the remote can hold activity a in
RemoteVersions(a) ==
  { Activity(a, sh, d) : sh \in RemoteShapes, d \in IF a = 1 THEN Distances ELSE {100} }

\* The bodies GET /athlete/activities can answer with for user u: lists of
\* u's activities, each id at most once, by ascending id.
RemoteLists(u) ==
  LET mine == { a \in ActIds : Owner(a) = u }
      one == { Activity(a, sh, 100) : a \in mine, sh \in RemoteShapes }
  IN  { <<>> } \cup { <<x>> : x \in one }
      \cup { p \in one \X one : p[1].id < p[2].id }

Min(a, b) == IF a < b THEN a ELSE b

SeqToSet(s) == { s[i] : i \in 1..Len(s) }

RECURSIVE SelectRows(_, _, _)
\* rows of s (from index i on) whose id is x, kept in order
SelectRows(s, i, x) ==
  IF i > Len(s) THEN <<>>
  ELSE IF s[i].id = x THEN <<s[i]>> \o SelectRows(s, i + 1, x)
  ELSE SelectRows(s, i + 1, x)

CountId(s, x) == Len(SelectRows(s, 1, x))

-----------------------------------------------------------------------------
(* The store: the part of the state the service functions read and write.   *)
(* reqs and refr count the activity requests and the refreshAccessToken     *)
(* calls made by the call in progress, prog the calls of                    *)
(* ChallengeService.updateUserChallengeProgress; part is the                *)
(* ChallengeParticipants sheet.                                             *)

Store == [users |-> users, cache |-> cache, acts |-> acts, tok |-> tok,
          feed |-> feedCached, trig |-> triggers, reqs |-> 0, refr |-> 0,
          prog |-> 0, part |-> participants]

NoCache == [hit |-> FALSE, data |-> <<>>]

\* DatabaseService.getAllUsers: cache-aside read of the Database sheet.
GetAllUsers(s) ==
  IF s.cache.hit THEN s ELSE [s EXCEPT !.cache = [hit |-> TRUE, data |-> s.users]]

AllUsers(s) == GetAllUsers(s).cache.data

\* DatabaseService.getUserData: the user object, found in the member list.
HasUser(s, uid) == uid \in DOMAIN AllUsers(s)
UserData(s, uid) == AllUsers(s)[uid]

\* DatabaseService.getAccessToken / getRefreshToken (0: null).
GetAccessToken(s, uid) == IF HasUser(s, uid) THEN UserData(s, uid).accessToken ELSE 0
GetRefreshToken(s, uid) == IF HasUser(s, uid) THEN UserData(s, uid).refreshToken ELSE 0

\* DatabaseService.updateUserData: the row of uid is written (updated or
\* appended) with the tokens of userData and LAST_UPDATED = now, and the
\* member cache is removed.
UpdateUserData(s, uid, userData, now) ==
  LET row == [accessToken |-> userData.accessToken,
              refreshToken |-> userData.refreshToken,
              lastUpdated |-> now]
      sheet == IF uid \in DOMAIN s.users
               THEN [s.users EXCEPT ![uid] = row]
               ELSE [u \in DOMAIN s.users \cup {uid} |->
                       IF u = uid THEN row ELSE s.users[u]]
  IN  [s EXCEPT !.users = sheet, !.cache = NoCache]

RECURSIVE SumDistance(_, _, _)
\* the reduce of updateUserChallengeProgress: the distances of the rows of
\* uid, from row i on (one active challenge, whose dates include every row)
SumDistance(rows, i, uid) ==
  IF i > Len(rows) THEN 0
  ELSE (IF rows[i].athlete_id = uid THEN rows[i].distance ELSE 0)
       + SumDistance(rows, i + 1, uid)

\* ChallengeService.updateUserChallengeProgress: when uid has a row in the
\* ChallengeParticipants sheet, its Progress is computed again from the
\* Activities sheet
UpdateUserChallengeProgress(s, uid) ==
  [s EXCEPT !.prog = s.prog + 1,
            !.part = IF uid \in DOMAIN s.part
                     THEN [s.part EXCEPT ![uid] = SumDistance(s.acts, 1, uid)]
                     ELSE s.part]

-----------------------------------------------------------------------------
(* StravaService.  What the remote does is an input: env.rf0 and env.rf1    *)
(* say whether the token endpoint answers the refresh made before the       *)
(* request and the one made after a 401; env.r1 and env.r2 are the outcomes *)
(* of the request and of its retry (an HTTP status, or "throw" for a        *)
(* network-level failure of UrlFetchApp.fetch); env.body is the body of a   *)
(* 200 answer.                                                              *)

Statuses == {"200", "401", "500", "throw"}

\* StravaService.refreshAccessToken: [s, token] (token 0: null was returned).
RefreshAccessToken(s, uid, ok, now) ==
  LET Issue(s1, new) ==
        [s |-> UpdateUserData([s1 EXCEPT !.tok = new], uid,
                              [UserData(s1, uid) EXCEPT !.accessToken = new,
                                                        !.refreshToken = new], now),
         token |-> new]
      Refresh(s1) ==
        IF GetRefreshToken(s1, uid) = 0 THEN [s |-> s1, token |-> 0]
        ELSE IF ~(ok /\ s1.tok < MaxTok) THEN [s |-> s1, token |-> 0]
        ELSE Issue(s1, s1.tok + 1)
  IN  Refresh([GetAllUsers(s) EXCEPT !.refr = s.refr + 1])

\* activities.filter(activity => ALLOWED_ACTIVITY_TYPES.includes(activity.type))
AllowedTypesOnly(list) == SelectSeq(list, LAMBDA x : x.type \in ALLOWED_ACTIVITY_TYPES)

ListResult(s, list) == [s |-> s, kind |-> "list", list |-> list]
NullResult(s) == [s |-> s, kind |-> "null", list |-> <<>>]
ThrowResult(s) == [s |-> s, kind |-> "throw", list |-> <<>>]

\* The request of getAthleteActivities and what follows it.
ActivitiesRequest(s, uid, env, now) ==
  LET Retried(s2) ==
        CASE env.r2 = "throw" -> ThrowResult(s2)
          [] env.r2 = "200" -> ListResult(s2, AllowedTypesOnly(env.body))
          [] OTHER -> ListResult(s2, <<>>)
      Refreshed(rf) ==
        IF rf.token = 0 THEN ListResult(rf.s, <<>>)
        ELSE Retried([rf.s EXCEPT !.reqs = rf.s.reqs + 1])
      Requested(s1) ==
        CASE env.r1 = "throw" -> ThrowResult(s1)
          [] env.r1 = "200" -> ListResult(s1, AllowedTypesOnly(env.body))
          [] env.r1 = "401" -> Refreshed(RefreshAccessToken(s1, uid, env.rf1, now))
          [] OTHER -> NullResult(s1)
  IN  Requested([s EXCEPT !.reqs = s.reqs + 1])

\* the access token stored for uid or, without one, the outcome of a refresh
TokenOrRefresh(s0, uid, ok, now) ==
  IF GetAccessToken(s0, uid) # 0
  THEN [s |-> s0, token |-> GetAccessToken(s0, uid)]
  ELSE RefreshAccessToken(s0, uid, ok, now)

\* StravaService.getAthleteActivities
GetAthleteActivities(s, uid, env, now) ==
  LET WithToken(rf) ==
        IF rf.token = 0 THEN NullResult(rf.s)
        ELSE ActivitiesRequest(rf.s, uid, env, now)
  IN  WithToken(TokenOrRefresh(GetAllUsers(s), uid, env.rf0, now))

ObjResult(s, kind, obj) == [s |-> s, kind |-> kind, obj |-> obj]

\* The request of getActivityById, its retry after a 401 and the final check.
ActivityRequest(s, uid, env, now) ==
  LET Retried(s2) ==
        CASE env.r2 = "throw" -> ObjResult(s2, "throw", env.body)
          [] env.r2 = "200" -> ObjResult(s2, "object", env.body)
          [] OTHER -> ObjResult(s2, "null", env.body)
      Refreshed(rf) ==
        IF rf.token = 0 THEN ObjResult(rf.s, "null", env.body)
        ELSE Retried([rf.s EXCEPT !.reqs = rf.s.reqs + 1])
      Requested(s1) ==
        CASE env.r1 = "throw" -> ObjResult(s1, "throw", env.body)
          [] env.r1 = "401" -> Refreshed(RefreshAccessToken(s1, uid, env.rf1, now))
          [] env.r1 = "200" -> ObjResult(s1, "object", env.body)
          [] OTHER -> ObjResult(s1, "null", env.body)
  IN  Requested([s EXCEPT !.reqs = s.reqs + 1])

\* StravaService.getActivityById
GetActivityById(s, uid, env, now) ==
  LET WithToken(rf) ==
        IF rf.token = 0 THEN ObjResult(rf.s, "null", env.body)
        ELSE ActivityRequest(rf.s, uid, env, now)
  IN  WithToken(TokenOrRefresh(GetAllUsers(s), uid, env.rf0, now))

-----------------------------------------------------------------------------
(* Triggers.js *)

IsAllowedType(a) == a.type \in ALLOWED_ACTIVITY_TYPES

\* variant: the visibility of the activity is not looked at
AnyVisibility(a) == TRUE

IsAllowedVisibility(a) == a.visibility \in ALLOWED_VISIBILITY

\* the row appended for an activity object: athlete.id flattened into athlete_id
PreparedActivity(a) ==
  [id |-> a.id, athlete_id |-> a.athlete, type |-> a.type,
   visibility |-> a.visibility, distance |-> a.distance]

\* String(id): ids are compared as strings
IdKey(id) == ToString(id)

\* variant: only the first data row is read for the ids
FirstRowIdOnly(rows) == { IdKey(rows[i].id) : i \in 1..Min(1, Len(rows)) }

\* new Set(allExistingActivities.map(a => String(a.id)))
ExistingActivityIds(rows) == { IdKey(rows[i].id) : i \in 1..Len(rows) }

\* variant: the look-up of the id is left out of the checks
SeesNewWithoutIds(rows, a) ==
  a.id # 0 /\ IsAllowedType(a) /\ IsAllowedVisibility(a)

\* addSingleActivityToSheet up to its append: the activity passes the checks
\* against the rows read from the sheet
SeesNew(rows, a) ==
  /\ a.id # 0
  /\ IsAllowedType(a)
  /\ IsAllowedVisibility(a)
  /\ IdKey(a.id) \notin ExistingActivityIds(rows)

\* SheetService.appendObjects(SHEET_NAMES.ACTIVITIES, [preparedActivity])
AppendObjects(rows, a) == Append(rows, PreparedActivity(a))

\* variant: the activity is appended without the look-up of its id
AddWithoutIdCheck(s, a) ==
  IF a.id = 0 \/ ~IsAllowedType(a) \/ ~IsAllowedVisibility(a)
  THEN [s |-> s, added |-> FALSE]
  ELSE [s |-> [s EXCEPT !.acts = Append(s.acts, PreparedActivity(a))], added |-> TRUE]

\* addSingleActivityToSheet: [s, added]
AddSingleActivityToSheet(s, a) ==
  IF a.id = 0 THEN [s |-> s, added |-> FALSE]
  ELSE IF ~IsAllowedType(a) THEN [s |-> s, added |-> FALSE]
  ELSE IF ~IsAllowedVisibility(a) THEN [s |-> s, added |-> FALSE]
  ELSE IF IdKey(a.id) \in ExistingActivityIds(s.acts) THEN [s |-> s, added |-> FALSE]
  ELSE [s |-> [s EXCEPT !.acts = Append(s.acts, PreparedActivity(a))], added |-> TRUE]

\* variant: the loop stops after the first fetched activity
AddFirstOnly(s, list, i, any) ==
  IF list = <<>> THEN [s |-> s, added |-> any]
  ELSE AddSingleActivityToSheet(s, list[1])

RECURSIVE AddEach(_, _, _, _)
\* the loop of syncActivitiesForUser over the fetched activities
AddEach(s, list, i, any) ==
  LET Rest(r) == AddEach(r.s, list, i + 1, any \/ r.added)
  IN  IF i > Len(list) THEN [s |-> s, added |-> any]
      ELSE Rest(AddSingleActivityToSheet(s, list[i]))

\* variant: the interval is one hour
UpdatedThisHour(user, now) ==
  user.lastUpdated # NoTime /\ now - user.lastUpdated < 1

\* variant: no call counts as recent
NeverRecent(user, now) == FALSE

\* the throttle of syncActivitiesForUser
UpdatedRecently(user, now) ==
  user.lastUpdated # NoTime /\ now - user.lastUpdated < UPDATE_INTERVAL_HOURS

\* the lookback window, in days
ActualDaysToSync(user, daysToSync) ==
  IF user.lastUpdated = NoTime THEN FIRST_SYNC_DAYS ELSE daysToSync

SyncResult(s, ret, why, days) == [s |-> s, ret |-> ret, why |-> why, days |-> days]

\* syncActivitiesForUser: ret is "true", "false" or "throw"
SyncActivitiesForUser(s, uid, forceSync, daysToSync, env, now) ==
  LET Looped(r, user, days) ==
        IF r.added
        THEN SyncResult(UpdateUserChallengeProgress(UpdateUserData(r.s, uid, user, now), uid),
                        "true", "added", days)
        ELSE SyncResult(r.s, "false", "nothing", days)
      Fetched(got, user, days) ==
        CASE got.kind = "throw" -> SyncResult(got.s, "throw", "throw", days)
          [] got.kind = "null" -> SyncResult(got.s, "false", "failed", days)
          [] got.list = <<>> -> SyncResult(got.s, "false", "empty", days)
          [] OTHER -> Looped(AddEach(got.s, got.list, 1, FALSE), user, days)
      Found(s0, user) ==
        IF ~forceSync /\ UpdatedRecently(user, now)
        THEN SyncResult(s0, "false", "recent", 0)
        ELSE Fetched(GetAthleteActivities(s0, uid, env, now), user,
                     ActualDaysToSync(user, daysToSync))
      Read(s0) ==
        IF ~HasUser(s0, uid) THEN SyncResult(s0, "false", "nouser", 0)
        ELSE Found(s0, UserData(s0, uid))
  IN  Read(GetAllUsers(s))

-----------------------------------------------------------------------------
(* Webhook.js *)

WORKER_SHARED_SECRET == "s3cret"

RECURSIVE DeleteFromBottom(_, _, _)
\* SheetService.deleteObjectById: scanning from the last row up, the first row
\* whose id matches is deleted
DeleteFromBottom(rows, i, id) ==
  IF i = 0 THEN rows
  ELSE IF IdKey(rows[i].id) = IdKey(id)
       THEN SubSeq(rows, 1, i - 1) \o SubSeq(rows, i + 1, Len(rows))
       ELSE DeleteFromBottom(rows, i - 1, id)

DeleteObjectById(rows, id) == DeleteFromBottom(rows, Len(rows), id)

\* variant: the caches are left as they are
KeepCaches(s) == s

\* AppCache.invalidateActivityCaches
InvalidateActivityCaches(s) == [s EXCEPT !.feed = FALSE]

\* deleteTriggersByName('processActivitySyncQueue')
DeleteDrainTriggers(s) == [s EXCEPT !.trig = s.trig - s.trig]

EventResult(s, threw, added, got) == [s |-> s, threw |-> threw, added |-> added, got |-> got]

\* the 'create' case of handleActivityEvent (also reached from 'update')
HandleCreate(s, owner_id, object_id, env, now) ==
  LET Stamped(s1) ==
        DeleteDrainTriggers(InvalidateActivityCaches(UpdateUserChallengeProgress(
          UpdateUserData(s1, owner_id, UserData(s1, owner_id), now), owner_id)))
      Offered(r) ==
        IF r.added THEN EventResult(Stamped(GetAllUsers(r.s)), FALSE, TRUE, "object")
        ELSE EventResult(r.s, FALSE, FALSE, "object")
      Fetched(got) ==
        CASE got.kind = "throw" -> EventResult(got.s, TRUE, FALSE, "throw")
          [] got.kind = "null" -> EventResult(got.s, FALSE, FALSE, "null")
          [] OTHER -> Offered(AddSingleActivityToSheet(got.s, got.obj))
      Read(s0) ==
        IF GetAccessToken(s0, owner_id) = 0 THEN EventResult(s0, FALSE, FALSE, "notoken")
        ELSE Fetched(GetActivityById(s0, owner_id, env, now))
  IN  Read(GetAllUsers(s))

\* handleActivityEvent
HandleActivityEvent(s, aspect_type, owner_id, object_id, env, now) ==
  LET Deleted(rows) == [s EXCEPT !.acts = rows]
  IN  CASE aspect_type \in {"update", "create"} ->
             HandleCreate(IF aspect_type = "update"
                          THEN Deleted(DeleteObjectById(s.acts, object_id))
                          ELSE s,
                          owner_id, object_id, env, now)
        [] aspect_type = "delete" ->
             EventResult(InvalidateActivityCaches(
                           Deleted(DeleteObjectById(s.acts, object_id))),
                         FALSE, FALSE, "none")
        [] OTHER -> EventResult(s, FALSE, FALSE, "none")

\* handleAthleteEvent: DatabaseService has no method deauthorizeUser, so the
\* call on a deauthorization raises a TypeError
HandleAthleteEvent(s, aspect_type, owner_id, updates) ==
  IF aspect_type = "update" /\ updates = "authorized_false"
  THEN EventResult(s, TRUE, FALSE, "none")
  ELSE EventResult(s, FALSE, FALSE, "none")

\* processStravaEvent
ProcessStravaEvent(s, payload, env, now) ==
  CASE payload.object_type = "activity" ->
         HandleActivityEvent(s, payload.aspect_type, payload.owner_id,
                             payload.object_id, env, now)
    [] payload.object_type = "athlete" ->
         HandleAthleteEvent(s, payload.aspect_type, payload.owner_id, payload.updates)
    [] OTHER -> EventResult(s, FALSE, FALSE, "none")

NoPayload == [object_type |-> "missing", aspect_type |-> "none", owner_id |-> 0,
              object_id |-> 0, updates |-> "none"]

PostResult(s, response, routed, ev, stamp) ==
  [s |-> s, response |-> response, routed |-> routed, ev |-> ev, stamp |-> stamp]

NoEvent(s) == EventResult(s, FALSE, FALSE, "none")

\* the end of doPost once processStravaEvent has returned or thrown
Answered(ev, stamp, now) ==
  IF ev.threw
  THEN PostResult(ev.s, "Error processing request", TRUE, ev, stamp)
  ELSE PostResult(ev.s, "Success", TRUE, ev, now)

\* variant: LAST_WEBHOOK_TIMESTAMP is written before the secret is compared
DoPostStampFirst(s, stamp, req, env, now) ==
  IF ~req.configured \/ ~req.json
  THEN PostResult(s, "Error processing request", FALSE, NoEvent(s), stamp)
  ELSE IF req.secret # WORKER_SHARED_SECRET
  THEN PostResult(s, "Authentication Failed", FALSE, NoEvent(s), now)
  ELSE IF req.payload = NoPayload
  THEN PostResult(s, "Error processing request", FALSE, NoEvent(s), stamp)
  ELSE Answered(ProcessStravaEvent(s, req.payload, env, now), stamp, now)

\* variant: the secret of the request is not compared
DoPostUnchecked(s, stamp, req, env, now) ==
  IF ~req.configured \/ ~req.json \/ req.payload = NoPayload
  THEN PostResult(s, "Error processing request", FALSE, NoEvent(s), stamp)
  ELSE Answered(ProcessStravaEvent(s, req.payload, env, now), stamp, now)

\* doPost: req.configured says whether the script property
\* WORKER_SHARED_SECRET is set when the request arrives, req.json whether the
\* body parses to an object; stamp is the new value of LAST_WEBHOOK_TIMESTAMP.
\* The response "Error processing request" stands for that text followed by
\* ": " and the message of the exception.
DoPost(s, stamp, req, env, now) ==
  IF ~req.configured
  THEN PostResult(s, "Error processing request", FALSE, NoEvent(s), stamp)
  ELSE IF ~req.json THEN PostResult(s, "Error processing request", FALSE, NoEvent(s), stamp)
  ELSE IF req.secret # WORKER_SHARED_SECRET
  THEN PostResult(s, "Authentication Failed", FALSE, NoEvent(s), stamp)
  ELSE IF req.payload = NoPayload
  THEN PostResult(s, "Error processing request", FALSE, NoEvent(s), stamp)
  ELSE Answered(ProcessStravaEvent(s, req.payload, env, now), stamp, now)

-----------------------------------------------------------------------------
(* The subscription handshake: strava-webhook-proxy/src/index.js and Main.js *)

STRAVA_VERIFY_TOKEN == "t0k3n"
Missing == "missing"       \* a query parameter that is absent
Unset == "unset"           \* a secret or script property that is not set

\* a value that counts as true in a condition
Truthy(x) == x \notin {"", Missing, Unset}

Answer(status, body, challenge) ==
  [status |-> status, body |-> body, challenge |-> challenge]

\* variant: the mode of the request is not looked at
ValidationWithoutMode(q, verifyToken) ==
  IF q.token = verifyToken
  THEN Answer(200, "json", IF q.challenge = Missing THEN "null" ELSE q.challenge)
  ELSE Answer(403, "Forbidden", "none")

\* handleSubscriptionValidation of the proxy; JSON.stringify writes an absent
\* challenge (null) as null
HandleSubscriptionValidation(q, verifyToken) ==
  IF q.mode = "subscribe" /\ q.token = verifyToken
  THEN Answer(200, "json", IF q.challenge = Missing THEN "null" ELSE q.challenge)
  ELSE Answer(403, "Forbidden", "none")

\* handleWebhookValidation of Main.js; JSON.stringify leaves an absent
\* challenge (undefined) out of the object
HandleWebhookValidation(q, verifyToken) ==
  IF q.token = verifyToken
  THEN IF q.challenge = Missing THEN Answer(200, "json", "none")
       ELSE Answer(200, "json", q.challenge)
  ELSE Answer(200, "Validation failed: Mismatched verify_token.", "none")

\* doGet: the handshake, the OAuth callback or the main page
DoGet(q, verifyToken) ==
  IF q.mode = "subscribe" /\ Truthy(q.token)
  THEN HandleWebhookValidation(q, verifyToken)
  ELSE IF q.code /\ q.scope THEN Answer(200, "callback", "none")
  ELSE Answer(200, "home.html", "none")

\* forwardEvent up to its fetch: the body sent to the web app (JSON.stringify
\* leaves a secret that is not set out of the object)
GasPayload(stravaPayload, secret) ==
  [secret |-> IF secret = Unset THEN "none" ELSE secret, strava_payload |-> stravaPayload]

NothingSent == GasPayload(NoPayload, Unset)

Exchange(status, body, forwards, sent, outcome) ==
  [status |-> status, body |-> body, forwards |-> forwards, sent |-> sent,
   outcome |-> outcome]

\* fetch of the proxy for a request that is not a GET: json says whether the
\* body parses.  forwardEvent runs up to its fetch before the response is
\* returned; ctx.waitUntil keeps the worker alive until it settles.
ProxyFetch(method, json, stravaPayload, secret) ==
  IF method # "POST" THEN Exchange(405, "Method Not Allowed", 0, NothingSent, "none")
  ELSE IF ~json THEN Exchange(400, "Bad Request: Invalid JSON", 0, NothingSent, "none")
  ELSE Exchange(200, "EVENT_RECEIVED", 1, GasPayload(stravaPayload, secret), "pending")

\* variant: a forward that failed is made once more
ForwardRetried(x, outcome) ==
  IF outcome \in {"failed", "throw"}
  THEN [x EXCEPT !.outcome = outcome, !.forwards = @ + 1]
  ELSE [x EXCEPT !.outcome = outcome]

\* forwardEvent from the answer of its fetch on: the answer or the exception
\* is logged
ForwardSettled(x, outcome) == [x EXCEPT !.outcome = outcome]

-----------------------------------------------------------------------------
(* Inputs *)

TickHours == 2
HalfDayHours == 12

Env(rf0, r1, rf1, r2, body) ==
  [rf0 |-> rf0, r1 |-> r1, rf1 |-> rf1, r2 |-> r2, body |-> body]

\* What the remote can do during one call: every outcome of the request, of
\* the refresh after a 401 and of the retry, with each of the bodies.
Envs(firstRefresh, bodies, filler) ==
  UNION { { Env(rf0, "200", TRUE, "200", b) : b \in bodies }
          \cup { Env(rf0, r, TRUE, "200", filler) : r \in {"500", "throw"} }
          \cup { Env(rf0, "401", FALSE, "200", filler) }
          \cup { Env(rf0, "401", TRUE, "200", b) : b \in bodies }
          \cup { Env(rf0, "401", TRUE, r, filler) : r \in {"401", "500", "throw"} }
          : rf0 \in firstRefresh }

\* the refresh before the request only happens when no access token is stored
FirstRefresh(uid) ==
  IF uid \in DOMAIN users /\ users[uid].accessToken = 0 THEN BOOLEAN ELSE {TRUE}

SyncEnvs(uid) == Envs(FirstRefresh(uid), RemoteLists(uid), <<>>)

NoObject == [Activity(1, <<"Swim", "everyone">>, 100) EXCEPT !.id = 0]

FetchEnvs(uid, object_id) == Envs(FirstRefresh(uid), RemoteVersions(object_id), NoObject)

\* activity objects handed to addSingleActivityToSheet directly
AddInputs ==
  { Activity(a, sh, d) : a \in ActIds, sh \in Shapes, d \in Distances }
  \cup { [Activity(1, sh, 100) EXCEPT !.id = 0] : sh \in Shapes }

ActivityPayloads ==
  LET Event(a, asp, o) ==
        [object_type |-> "activity", aspect_type |-> asp, owner_id |-> o,
         object_id |-> a, updates |-> "none"]
  IN  { Event(a, asp, Owner(a)) : a \in ActIds, asp \in {"create", "update", "delete"} }
      \cup { Event(1, asp, UnknownUser) : asp \in {"create", "update", "delete"} }
      \cup { Event(1, "other", Owner(1)) }

AthletePayloads ==
  { [object_type |-> "athlete", aspect_type |-> asp, owner_id |-> 1,
     object_id |-> 1, updates |-> up] :
       asp \in {"update", "create"}, up \in {"none", "authorized_false", "other"} }

OtherPayloads ==
  { [object_type |-> "other", aspect_type |-> "create", owner_id |-> 1,
     object_id |-> 1, updates |-> "none"] }

Payloads == ActivityPayloads \cup AthletePayloads \cup OtherPayloads \cup {NoPayload}

\* the requests doPost receives: bodies with or without the right secret and a
\* body that does not parse, with the script property set or not
Requests ==
  { [configured |-> c, json |-> TRUE, secret |-> sec, payload |-> pl] :
      c \in BOOLEAN, sec \in {WORKER_SHARED_SECRET, "wrong", "none"}, pl \in Payloads }
  \cup { [configured |-> c, json |-> FALSE, secret |-> "none", payload |-> NoPayload] :
           c \in BOOLEAN }

\* the activity create / update / delete events of members, as the proxy
\* forwards them, and the same with a wrong secret
ActivityEvents ==
  { req \in Requests :
      /\ req.configured
      /\ req.json
      /\ req.secret \in {WORKER_SHARED_SECRET, "wrong"}
      /\ req.payload.object_type = "activity"
      /\ req.payload.aspect_type \in {"create", "update", "delete"}
      /\ req.payload.owner_id = Owner(req.payload.object_id) }

NoEnv == Env(TRUE, "200", TRUE, "200", NoObject)

\* the remote is only asked on an authenticated activity create or update
PostEnvs(req) ==
  IF /\ req.configured
     /\ req.json
     /\ req.secret = WORKER_SHARED_SECRET
     /\ req.payload.object_type = "activity"
     /\ req.payload.aspect_type \in {"create", "update"}
     /\ req.payload.owner_id \in DOMAIN users
  THEN FetchEnvs(req.payload.owner_id, req.payload.object_id)
  ELSE {NoEnv}

SyncUsers == {1, 2, UnknownUser}

\* the query strings of GET requests: hub.mode, hub.verify_token and
\* hub.challenge present or not, and the code and scope of an OAuth redirect
Queries ==
  { [mode |-> m, token |-> tk, challenge |-> c, code |-> oc, scope |-> oc] :
      m \in {"subscribe", "unsubscribe", Missing},
      tk \in {STRAVA_VERIFY_TOKEN, "wrong", "", Missing},
      c \in {"c1", "c2", Missing},
      oc \in BOOLEAN }

\* the verify token as configured, in the worker's env and in the script
\* properties
VerifyTokens == {STRAVA_VERIFY_TOKEN, Unset}

-----------------------------------------------------------------------------
(* State *)

Runs == 1..NumRuns

IdleRun == [pc |-> "idle", q |-> <<>>, todo |-> <<>>, added |-> FALSE,
            start |-> <<>>, refilled |-> FALSE, synced |-> <<>>]

NewUser == [accessToken |-> 1, refreshToken |-> 1, lastUpdated |-> NoTime]

\* no user has joined a challenge
NoParticipants == [u \in {} |-> 0]

InitWith(n) ==
  /\ participants = NoParticipants
  /\ clock = 0
  /\ users = [u \in 1..n |-> NewUser]
  /\ cache = NoCache
  /\ acts = <<>>
  /\ tok = 1
  /\ queue = <<>>
  /\ triggers = 0
  /\ lastWebhook = NoTime
  /\ feedCached = FALSE
  /\ lock = 0
  /\ run = [p \in Runs |-> IdleRun]
  /\ last = [op |-> "none"]

Init == InitWith(NumUsers)

InitQueue == InitWith(NumQueueUsers)

\* the Database sheet has no row yet
InitEmpty == InitWith(0)

\* the store variables take the values of s
Commit(s) ==
  /\ users' = s.users
  /\ cache' = s.cache
  /\ acts' = s.acts
  /\ tok' = s.tok
  /\ feedCached' = s.feed
  /\ triggers' = s.trig
  /\ participants' = s.part

Idle == \A p \in Runs : run[p].pc = "idle"

-----------------------------------------------------------------------------
(* Operations.  last records what the operation that finished most recently *)
(* was called with and what it did.                                         *)

\* half a day passes
TickHalfDay ==
  /\ clock + HalfDayHours <= MaxHalfDays * HalfDayHours
  /\ clock' = clock + HalfDayHours
  /\ UNCHANGED <<users, cache, acts, participants, tok, queue, triggers, lastWebhook,
                 feedCached, lock, run, last>>

\* time passes
Tick ==
  /\ clock + TickHours <= MaxClock
  /\ clock' = clock + TickHours
  /\ UNCHANGED <<users, cache, acts, participants, tok, queue, triggers, lastWebhook,
                 feedCached, lock, run, last>>

\* a call addSingleActivityToSheet(a)
AddCall(a) ==
  LET Done(r, second) ==
        /\ Commit(r.s)
        /\ last' = [op |-> "add", arg |-> a, ret |-> r.added,
                    changed |-> r.s.acts # acts,
                    second |-> second,
                    firstChanged |-> second /\ last.changed]
  IN  /\ Done(AddSingleActivityToSheet(Store, a), last.op = "add" /\ last.arg = a)
      /\ UNCHANGED <<clock, queue, lastWebhook, lock, run>>

\* a call syncActivitiesForUser(uid, forceSync), with the call before it when
\* that was a call for the same user without forceSync
SyncCall(uid, forceSync, env) ==
  LET Done(r, again) ==
        /\ Commit(r.s)
        /\ last' = [op |-> "sync", user |-> uid, force |-> forceSync, ret |-> r.ret,
                    why |-> r.why, fetched |-> r.s.reqs > 0, now |-> clock,
                    again |-> again,
                    within |-> again /\ clock - last.now < UPDATE_INTERVAL_HOURS,
                    prevRet |-> IF again THEN last.ret ELSE "none",
                    prevFetched |-> again /\ last.fetched]
  IN  /\ Done(SyncActivitiesForUser(Store, uid, forceSync, DEFAULT_DAYS_TO_SYNC, env, clock),
              last.op = "sync" /\ last.user = uid /\ ~last.force)
      /\ UNCHANGED <<clock, queue, lastWebhook, lock, run>>

\* the rows the call hands to addSingleActivityToSheet include an allowed
\* activity whose id is stored already
OffersStored(rows, list) ==
  \E i \in 1..Len(list) :
    /\ IsAllowedType(list[i]) /\ IsAllowedVisibility(list[i])
    /\ IdKey(list[i].id) \in ExistingActivityIds(rows)

\* a call syncActivitiesForUser(uid, forceSync) in the pipeline
SyncIngest(uid, forceSync, env) ==
  LET Done(r) ==
        /\ Commit(r.s)
        /\ last' = [op |-> "sync",
                    known |-> r.why \in {"added", "nothing"} /\ OffersStored(acts, env.body)]
  IN  /\ Done(SyncActivitiesForUser(Store, uid, forceSync, DEFAULT_DAYS_TO_SYNC, env, clock))
      /\ UNCHANGED <<clock, queue, lastWebhook, lock, run>>

\* a call syncActivitiesForUser(uid, forceSync) with what it was given and what
\* it found: never says that the LAST_UPDATED cell of the user was empty,
\* created that the call before was the OAuth callback that appended the
\* user's row, delivered that the remote answered the request or its retry with the
\* list env.body
SyncRun(uid, forceSync, env) ==
  LET Done(r) ==
        /\ Commit(r.s)
        /\ last' = [op |-> "syncrun", user |-> uid, force |-> forceSync,
                    never |-> uid \in DOMAIN users /\ users[uid].lastUpdated = NoTime,
                    created |-> /\ last.op = "callback" /\ last.user = uid
                                /\ last.authorized /\ ~last.existed,
                    delivered |-> /\ r.why \in {"empty", "added", "nothing"}
                                  /\ \/ env.r1 = "200"
                                     \/ env.r1 = "401" /\ env.r2 = "200" /\ r.s.reqs = 2,
                    body |-> env.body, before |-> acts,
                    fetched |-> r.s.reqs > 0, days |-> r.days,
                    ret |-> r.ret, now |-> clock]
  IN  /\ Done(SyncActivitiesForUser(Store, uid, forceSync, DEFAULT_DAYS_TO_SYNC, env, clock))
      /\ UNCHANGED <<clock, queue, lastWebhook, lock, run>>

\* a call syncActivitiesForUser(uid, forceSync), with what it asked of the
\* remote and what it left of the stored state
SyncStamp(uid, forceSync, env) ==
  LET Stamp(us) == IF uid \in DOMAIN us THEN us[uid].lastUpdated ELSE NoTime
      Tokens(us) == IF uid \in DOMAIN us
                    THEN <<us[uid].accessToken, us[uid].refreshToken>>
                    ELSE <<0, 0>>
      Done(r) ==
        /\ Commit(r.s)
        /\ last' = [op |-> "stamp", user |-> uid, force |-> forceSync,
                    ret |-> r.ret, why |-> r.why, now |-> clock,
                    reqs |-> r.s.reqs, refr |-> r.s.refr,
                    known |-> uid \in DOMAIN users,
                    issued |-> IF r.s.tok # tok THEN r.s.tok ELSE 0,
                    tokens |-> Tokens(r.s.users),
                    grew |-> Len(r.s.acts) > Len(acts),
                    before |-> Stamp(users), after |-> Stamp(r.s.users),
                    sameUsers |-> r.s.users = users,
                    sameActs |-> r.s.acts = acts,
                    sameTriggers |-> r.s.trig = triggers,
                    sameFeed |-> r.s.feed = feedCached,
                    sameCache |-> r.s.cache = cache,
                    cacheFilled |-> r.s.cache = GetAllUsers(Store).cache]
  IN  /\ Done(SyncActivitiesForUser(Store, uid, forceSync, DEFAULT_DAYS_TO_SYNC, env, clock))
      /\ UNCHANGED <<clock, queue, lastWebhook, lock, run>>

\* what a call of the remote activity client did
ClientReport(op, uid, env, r) ==
  [op |-> op, user |-> uid, r1 |-> env.r1, r2 |-> env.r2,
   kind |-> r.kind, reqs |-> r.s.reqs, refr |-> r.s.refr,
   hadToken |-> GetAccessToken(Store, uid) # 0,
   newToken |-> r.s.tok # tok]

\* a call StravaService.getAthleteActivities(uid, after, before)
ListCall(uid, env) ==
  LET Done(r) == Commit(r.s) /\ last' = ClientReport("list", uid, env, r)
  IN  /\ Done(GetAthleteActivities(Store, uid, env, clock))
      /\ UNCHANGED <<clock, queue, lastWebhook, lock, run>>

\* a call StravaService.getAthleteActivities(uid, after, before), with the
\* list it returned
ListReturn(uid, env) ==
  LET Done(r) ==
        /\ Commit(r.s)
        /\ last' = [op |-> "listed", user |-> uid, kind |-> r.kind,
                    body |-> env.body,
                    list |-> IF r.kind = "list" THEN r.list ELSE <<>>]
  IN  /\ Done(GetAthleteActivities(Store, uid, env, clock))
      /\ UNCHANGED <<clock, queue, lastWebhook, lock, run>>

\* a call StravaService.getActivityById(object_id, uid)
ByIdCall(uid, object_id, env) ==
  LET Done(r) == Commit(r.s) /\ last' = ClientReport("byid", uid, env, r)
  IN  /\ Done(GetActivityById(Store, uid, env, clock))
      /\ UNCHANGED <<clock, queue, lastWebhook, lock, run>>

RECURSIVE PushNew(_, _, _)
\* the forEach of enqueueUsersForSync: ids not yet in the queue are pushed
PushNew(q, ids, i) ==
  IF i > Len(ids) THEN q
  ELSE IF ids[i] \in SeqToSet(q) THEN PushNew(q, ids, i + 1)
  ELSE PushNew(Append(q, ids[i]), ids, i + 1)

RECURSIVE InRowOrder(_)
\* the ids of a set of users in the order of their rows (ascending id)
InRowOrder(S) ==
  IF S = {} THEN <<>>
  ELSE LET m == CHOOSE x \in S : \A y \in S : x <= y
       IN  <<m>> \o InRowOrder(S \ {m})

\* allUsers.map(user => user.id)
AllUserIds(s) == InRowOrder(DOMAIN AllUsers(s))

\* variant: the triggers are left in place
KeepTriggers(n) == n

\* deleteTriggersByName('processActivitySyncQueue'), on the number of drain triggers
DeleteTriggersByName(n) == n - n

\* variant: the triggers are deleted and none is created
SetupWithoutCreate(n) == DeleteTriggersByName(n)

\* setupActivitySyncTrigger: the drain triggers are deleted and one is created
SetupActivitySyncTrigger(n) == DeleteTriggersByName(n) + 1

\* variant: every check finds the webhook system down
AlwaysDown(stamp, now) == TRUE

\* monitorWebhookHealth: no LAST_WEBHOOK_TIMESTAMP, or one of more than 24
\* hours ago
WebhookDown(stamp, now) == stamp = NoTime \/ now - stamp > HEALTH_THRESHOLD_HOURS

\* monitorWebhookHealth, on the number of drain triggers
MonitorWebhookHealth(n, stamp, now) ==
  IF WebhookDown(stamp, now) THEN SetupActivitySyncTrigger(n) ELSE n

\* a run of monitorWebhookHealth that overlaps with nothing
MonitorCall ==
  /\ triggers' = MonitorWebhookHealth(triggers, lastWebhook, clock)
  /\ last' = [op |-> "monitor", stamp |-> lastWebhook, now |-> clock, before |-> triggers]
  /\ UNCHANGED <<clock, users, cache, acts, participants, tok, queue, lastWebhook, feedCached, lock, run>>

\* lock.releaseLock() by execution p
Released(p) == IF lock = p THEN 0 ELSE lock

\* the lists enqueueUsersForSync is called with
EnqueueInputs == { <<1>>, <<2, 1>>, InRowOrder(DOMAIN users) }

\* a call enqueueUsersForSync(ids) by an execution of its own (0 is never a
\* holder, so the lock it takes is free again when it returns)
EnqueueCall(ids) ==
  /\ lock = 0
  /\ queue' = PushNew(queue, ids, 1)
  /\ triggers' = SetupActivitySyncTrigger(triggers)
  /\ last' = [op |-> "enqueue", ids |-> ids]
  /\ UNCHANGED <<clock, users, cache, acts, participants, tok, lastWebhook, feedCached, lock, run>>

\* the athletes that come back from the authorization page: a member, and one
\* with no row in the Database sheet yet
CallbackUsers == {1, NumUsers + 1}

\* handleAuthorizationCallback for athlete uid.  outcome is what the OAuth2
\* service and the athlete request do: "ok", "denied" (handleCallback returns
\* false, as it does once the remote issues no more tokens) or "throw" (the
\* athlete request fails and the catch block answers); only "ok" reaches
\* updateUserData and enqueueUsersForSync([uid]).
AuthCallback(uid, outcome) ==
  LET authorized == outcome = "ok" /\ tok < MaxTok
      Armed(s) == [s EXCEPT !.trig = SetupActivitySyncTrigger(s.trig)]
      Written(s, new) ==
        UpdateUserData([s EXCEPT !.tok = new], uid,
                       [accessToken |-> new, refreshToken |-> new], clock)
  IN  /\ lock = 0
      /\ IF authorized
         THEN /\ Commit(Armed(Written(Store, tok + 1)))
              /\ queue' = PushNew(queue, <<uid>>, 1)
         ELSE UNCHANGED <<users, cache, acts, participants, tok, feedCached, triggers, queue>>
      /\ last' = [op |-> "callback", user |-> uid, authorized |-> authorized,
                  existed |-> uid \in DOMAIN users]
      /\ UNCHANGED <<clock, lastWebhook, lock, run>>

\* User ids as the values the script holds: the athlete id of the remote API
\* is a number, the id of a user read by getAllUsers is a string.  includes()
\* compares with strict equality, so a number never equals a string.
JsNumber(n) == [t |-> "number", v |-> n]
JsString(n) == [t |-> "string", v |-> n]

\* String(row.ID).trim().split('.')[0]
NormalizedId(n) == JsString(n)

\* allUsers.map(user => user.id), as values
AllUserIdValues(s) ==
  [i \in 1..Len(AllUserIds(s)) |-> NormalizedId(AllUserIds(s)[i])]

\* handleAuthorizationCallback, with the value it hands to enqueueUsersForSync
AuthCallbackId(uid, outcome) ==
  LET authorized == outcome = "ok" /\ tok < MaxTok
      Armed(s) == [s EXCEPT !.trig = SetupActivitySyncTrigger(s.trig)]
      Written(s, new) ==
        UpdateUserData([s EXCEPT !.tok = new], uid,
                       [accessToken |-> new, refreshToken |-> new], clock)
  IN  /\ lock = 0
      /\ IF authorized
         THEN /\ Commit(Armed(Written(Store, tok + 1)))
              /\ queue' = PushNew(queue, <<JsNumber(uid)>>, 1)
         ELSE UNCHANGED <<users, cache, acts, participants, tok, feedCached, triggers, queue>>
      /\ last' = [op |-> "callback", user |-> uid, authorized |-> authorized,
                  existed |-> uid \in DOMAIN users]
      /\ UNCHANGED <<clock, lastWebhook, lock, run>>

RECURSIVE SyncEachId(_, _, _, _, _, _)
\* the loop of processActivitySyncQueue over usersToProcess while the remote
\* has nothing new; the request for the k-th user fails at network level
\* (k = 0: none does)
SyncEachId(s, todo, i, k, any, now) ==
  LET Rest(r) ==
        IF r.ret = "throw" THEN [s |-> r.s, threw |-> TRUE, added |-> any]
        ELSE SyncEachId(r.s, todo, i + 1, k, any \/ r.ret = "true", now)
  IN  IF i > Len(todo) THEN [s |-> s, threw |-> FALSE, added |-> any]
      ELSE Rest(SyncActivitiesForUser(
                  s, todo[i].v, FALSE, DEFAULT_DAYS_TO_SYNC,
                  Env(TRUE, IF i = k THEN "throw" ELSE "200", TRUE, "200", <<>>), now))

\* processActivitySyncQueue from tryLock to the finally block, by an execution
\* that overlaps with nothing, on the values in the queue
DrainIds(k) ==
  LET Ended(r, q) ==
        /\ Commit(IF r.added /\ ~r.threw THEN InvalidateActivityCaches(r.s) ELSE r.s)
        /\ queue' = q
      Looped(r, q1, rest) == Ended(r, IF r.threw THEN q1 ELSE rest)
      Taken(s, q1) ==
        Looped(SyncEachId(s, SubSeq(q1, 1, Min(Len(q1), MAX_USERS_PER_RUN)), 1, k,
                          FALSE, clock),
               q1, SubSeq(q1, Min(Len(q1), MAX_USERS_PER_RUN) + 1, Len(q1)))
      Refilled(s, q1) ==
        IF q1 = <<>>
        THEN /\ Commit([s EXCEPT !.trig = DeleteTriggersByName(SetupActivitySyncTrigger(s.trig))])
             /\ queue' = q1
        ELSE Taken([s EXCEPT !.trig = SetupActivitySyncTrigger(s.trig)], q1)
      Read(s) == Refilled(s, PushNew(queue, AllUserIdValues(s), 1))
  IN  /\ lock = 0
      /\ Idle
      /\ IF queue # <<>> THEN Taken(Store, queue) ELSE Read(GetAllUsers(Store))
      /\ last' = [op |-> "drainids", start |-> queue, failed |-> k]
      /\ UNCHANGED <<clock, lastWebhook, lock, run>>

\* Executions that overlap.  setupActivitySyncTrigger is two calls of ScriptApp,
\* deleteTriggersByName and newTrigger(...).create(), and other executions run
\* between them.

\* monitorWebhookHealth by execution p up to the deleteTriggersByName of
\* setupActivitySyncTrigger
MonitorBegin(p) ==
  /\ run[p].pc = "idle"
  /\ IF WebhookDown(lastWebhook, clock)
     THEN /\ triggers' = DeleteTriggersByName(triggers)
          /\ run' = [run EXCEPT ![p] = [IdleRun EXCEPT !.pc = "monitor"]]
          /\ UNCHANGED last
     ELSE /\ last' = [op |-> "arm", by |-> p, from |-> "monitor", armed |-> FALSE]
          /\ UNCHANGED <<triggers, run>>
  /\ UNCHANGED <<clock, users, cache, acts, participants, tok, queue, lastWebhook, feedCached, lock>>

\* enqueueUsersForSync(ids) by execution p from waitLock to the
\* deleteTriggersByName of setupActivitySyncTrigger
EnqueueBegin(p, ids) ==
  /\ run[p].pc = "idle"
  /\ lock = 0
  /\ lock' = p
  /\ queue' = PushNew(queue, ids, 1)
  /\ triggers' = DeleteTriggersByName(triggers)
  /\ run' = [run EXCEPT ![p] = [IdleRun EXCEPT !.pc = "enqueue"]]
  /\ UNCHANGED <<clock, users, cache, acts, participants, tok, lastWebhook, feedCached, last>>

\* ScriptApp.newTrigger('processActivitySyncQueue')...create() by execution p,
\* and the return of its caller (the finally block of enqueueUsersForSync
\* releases the lock)
ArmCreate(p) ==
  /\ run[p].pc \in {"monitor", "enqueue"}
  /\ triggers' = triggers + 1
  /\ lock' = IF run[p].pc = "enqueue" THEN Released(p) ELSE lock
  /\ run' = [run EXCEPT ![p] = IdleRun]
  /\ last' = [op |-> "arm", by |-> p, from |-> run[p].pc, armed |-> TRUE]
  /\ UNCHANGED <<clock, users, cache, acts, participants, tok, queue, lastWebhook, feedCached>>

\* a request to doPost while another execution keeps the script lock: with
\* DEBUG_MODE on, debugLog(..., true) calls sheetLog, whose lock.waitLock(15000)
\* is outside its try block and throws when the wait times out.  The first
\* such call of doPost is before its try block and the others are followed by
\* those of its catch block, so the exception leaves doPost and the request
\* gets none of its answers.
PostLockTimeout(req) ==
  /\ lock # 0
  /\ last' = [op |-> "post", configured |-> req.configured,
              json |-> req.json, secret |-> req.secret, payload |-> req.payload,
              response |-> "none", routed |-> FALSE, added |-> FALSE, got |-> "none",
              body |-> NoObject, changed |-> FALSE,
              had |-> CountId(acts, req.payload.object_id),
              cachedBefore |-> feedCached, now |-> clock,
              usersChanged |-> FALSE]
  /\ UNCHANGED <<clock, users, cache, acts, participants, tok, queue, triggers, lastWebhook,
                 feedCached, lock, run>>

\* a GET request at the proxy (fetch routes it to handleSubscriptionValidation)
\* or at the web app (doGet)
GetReport(at, q, verifyToken, r) ==
  [op |-> "get", at |-> at, query |-> q, configured |-> verifyToken,
   status |-> r.status, body |-> r.body, challenge |-> r.challenge]

ProxyGet(q, verifyToken) ==
  /\ last' = GetReport("proxy", q, verifyToken, HandleSubscriptionValidation(q, verifyToken))
  /\ UNCHANGED <<clock, users, cache, acts, participants, tok, queue, triggers, lastWebhook,
                 feedCached, lock, run>>

AppGet(q, verifyToken) ==
  /\ last' = GetReport("app", q, verifyToken, DoGet(q, verifyToken))
  /\ UNCHANGED <<clock, users, cache, acts, participants, tok, queue, triggers, lastWebhook,
                 feedCached, lock, run>>

\* a request at the proxy that is not a GET
ProxyPost(method, json, stravaPayload, secret) ==
  LET Done(x) ==
        last' = [op |-> "proxy", method |-> method, json |-> json,
                 payload |-> stravaPayload, secret |-> secret, x |-> x]
  IN  /\ Done(ProxyFetch(method, json, stravaPayload, secret))
      /\ UNCHANGED <<clock, users, cache, acts, participants, tok, queue, triggers, lastWebhook,
                     feedCached, lock, run>>

\* the fetch of forwardEvent settles: the web app answered 200 ("ok") or
\* another status ("failed"), or the fetch threw
ForwardSettle(outcome) ==
  /\ last.op = "proxy"
  /\ last.x.outcome = "pending"
  /\ last' = [last EXCEPT !.x = ForwardSettled(last.x, outcome)]
  /\ UNCHANGED <<clock, users, cache, acts, participants, tok, queue, triggers, lastWebhook,
                 feedCached, lock, run>>

\* An ingest of activity a by execution p, in the webhook's create case
\* (by = "webhook", no lock) or in the sync of a queue drain (by = "drain",
\* under the script lock), up to the read of the Activities sheet.
IngestCheck(p, by, a) ==
  LET Done(s, new) ==
        /\ Commit(s)
        /\ run' = [run EXCEPT ![p] =
                     IF new
                     THEN [pc |-> "append", by |-> by, activity |-> a,
                           user |-> UserData(s, a.athlete),
                           seen |-> ExistingActivityIds(s.acts)]
                     ELSE IdleRun]
        /\ lock' = IF by = "drain" /\ new THEN p ELSE lock
        /\ last' = [op |-> "ingest", step |-> "check", by |-> by, arg |-> a,
                    new |-> new]
  IN  /\ run[p].pc = "idle"
      /\ by = "drain" => lock = 0
      /\ HasUser(Store, a.athlete)
      /\ Done(GetAllUsers(Store), SeesNew(acts, a))
      /\ UNCHANGED <<clock, queue, lastWebhook>>

\* the rest of that ingest: the append, and what its caller does after an
\* added activity
IngestAppend(p) ==
  LET a == run[p].activity
      Stamped(s) ==
        IF run[p].by = "webhook"
        THEN DeleteDrainTriggers(InvalidateActivityCaches(UpdateUserChallengeProgress(
               UpdateUserData(s, a.athlete, UserData(s, a.athlete), clock), a.athlete)))
        ELSE UpdateUserChallengeProgress(
               UpdateUserData(s, a.athlete, run[p].user, clock), a.athlete)
      Appended(s) == [s EXCEPT !.acts = AppendObjects(s.acts, a)]
  IN  /\ run[p].pc = "append"
      /\ Commit(Stamped(GetAllUsers(Appended(Store))))
      /\ run' = [run EXCEPT ![p] = IdleRun]
      /\ lock' = Released(p)
      /\ last' = [op |-> "ingest", step |-> "append", by |-> run[p].by, arg |-> a,
                  after |-> IF last.op = "ingest" /\ last.step = "append"
                               /\ last.arg.id = a.id
                            THEN last.by ELSE "none"]
      /\ UNCHANGED <<clock, queue, lastWebhook>>

DrainReport(p, outcome, r, persisted) ==
  [op |-> "drain", by |-> p, outcome |-> outcome, start |-> r.start,
   refilled |-> r.refilled, synced |-> r.synced, persisted |-> persisted]

\* variant: a run that does not obtain the lock empties the queue
DrainStartClearing(p) ==
  /\ run[p].pc = "idle"
  /\ IF lock = 0
     THEN /\ lock' = p
          /\ run' = [run EXCEPT ![p] = [IdleRun EXCEPT !.pc = "locked"]]
          /\ UNCHANGED <<last, queue>>
     ELSE /\ last' = DrainReport(p, "nolock", IdleRun, <<>>)
          /\ queue' = <<>>
          /\ UNCHANGED <<lock, run>>
  /\ UNCHANGED <<clock, users, cache, acts, participants, tok, triggers, lastWebhook, feedCached>>

\* processActivitySyncQueue, lock.tryLock: the lock is taken, or the wait
\* times out and the run returns
DrainStart(p) ==
  /\ run[p].pc = "idle"
  /\ IF lock = 0
     THEN /\ lock' = p
          /\ run' = [run EXCEPT ![p] = [IdleRun EXCEPT !.pc = "locked"]]
          /\ UNCHANGED last
     ELSE /\ last' = DrainReport(p, "nolock", IdleRun, <<>>)
          /\ UNCHANGED <<lock, run>>
  /\ UNCHANGED <<clock, users, cache, acts, participants, tok, queue, triggers, lastWebhook, feedCached>>

\* queue.splice(0, MAX_USERS_PER_RUN): the run's locals once the queue q is read
Spliced(q, refilled) ==
  [pc |-> "sync", q |-> SubSeq(q, Min(Len(q), MAX_USERS_PER_RUN) + 1, Len(q)),
   todo |-> SubSeq(q, 1, Min(Len(q), MAX_USERS_PER_RUN)), added |-> FALSE,
   start |-> q, refilled |-> refilled, synced |-> <<>>]

\* processActivitySyncQueue from the read of the queue to the splice; an empty
\* queue is refilled by enqueueUsersForSync, whose finally block releases the
\* script lock
DrainRead(p) ==
  /\ run[p].pc = "locked"
  /\ IF queue # <<>>
     THEN /\ run' = [run EXCEPT ![p] = Spliced(queue, FALSE)]
          /\ UNCHANGED <<cache, queue, triggers, lock, last>>
     ELSE LET s1 == GetAllUsers(Store)
              q1 == PushNew(queue, AllUserIds(s1), 1)
          IN  /\ cache' = s1.cache
              /\ queue' = q1
              /\ lock' = Released(p)
              /\ IF q1 = <<>>
                 THEN /\ triggers' = DeleteTriggersByName(SetupActivitySyncTrigger(triggers))
                      /\ run' = [run EXCEPT ![p] = IdleRun]
                      /\ last' = DrainReport(p, "nousers",
                                             [IdleRun EXCEPT !.refilled = TRUE], <<>>)
                 ELSE /\ triggers' = SetupActivitySyncTrigger(triggers)
                      /\ run' = [run EXCEPT ![p] = Spliced(q1, TRUE)]
                      /\ UNCHANGED last
  /\ UNCHANGED <<clock, users, acts, participants, tok, lastWebhook, feedCached>>

\* one iteration of the loop over usersToProcess; an exception leaves the loop
\* for the catch and finally blocks
DrainSync(p, env) ==
  LET Synced(r, me) ==
        /\ Commit(r.s)
        /\ IF r.ret = "throw"
           THEN /\ run' = [run EXCEPT ![p] = IdleRun]
                /\ lock' = Released(p)
                /\ last' = DrainReport(p, "error", me, <<"none">>)
           ELSE /\ run' = [run EXCEPT ![p] = [me EXCEPT !.added = @ \/ r.ret = "true"]]
                /\ UNCHANGED <<lock, last>>
  IN  /\ run[p].pc = "sync"
      /\ run[p].todo # <<>>
      /\ Synced(SyncActivitiesForUser(Store, Head(run[p].todo), FALSE,
                                      DEFAULT_DAYS_TO_SYNC, env, clock),
                [run[p] EXCEPT !.todo = Tail(@), !.synced = Append(@, Head(run[p].todo))])
      /\ UNCHANGED <<clock, queue, lastWebhook>>

\* the end of processActivitySyncQueue: caches, the write of the queue, finally
DrainFinish(p) ==
  /\ run[p].pc = "sync"
  /\ run[p].todo = <<>>
  /\ feedCached' = IF run[p].added THEN FALSE ELSE feedCached
  /\ queue' = run[p].q
  /\ lock' = Released(p)
  /\ run' = [run EXCEPT ![p] = IdleRun]
  /\ last' = DrainReport(p, "done", run[p], run[p].q)
  /\ UNCHANGED <<clock, users, cache, acts, participants, tok, triggers, lastWebhook>>

\* a request to doPost
Post(req, env) ==
  LET Done(r) ==
        /\ Commit(r.s)
        /\ lastWebhook' = r.stamp
        /\ last' = [op |-> "post", configured |-> req.configured,
                    json |-> req.json, secret |-> req.secret,
                    payload |-> req.payload,
                    response |-> r.response, routed |-> r.routed,
                    added |-> r.ev.added, got |-> r.ev.got,
                    body |-> IF r.ev.got = "object" THEN env.body ELSE NoObject,
                    changed |-> r.s.acts # acts,
                    had |-> CountId(acts, req.payload.object_id),
                    cachedBefore |-> feedCached, now |-> clock,
                    usersChanged |-> r.s.users # users]
  IN  /\ lock = 0
      /\ Done(DoPost(Store, lastWebhook, req, env, clock))
      /\ UNCHANGED <<clock, queue, lock, run>>

\* an authenticated create or update event of an activity at doPost, with what
\* it did to the owner's LAST_UPDATED, the challenge progress, the activity
\* caches and the drain triggers
PostCreate(req, env) ==
  LET owner == req.payload.owner_id
      Stamp(us) == IF owner \in DOMAIN us THEN us[owner].lastUpdated ELSE NoTime
      Stamps(us) == [u \in DOMAIN us |-> us[u].lastUpdated]
      Done(r) ==
        /\ Commit(r.s)
        /\ lastWebhook' = r.stamp
        /\ last' = [op |-> "create", aspect |-> req.payload.aspect_type,
                    event |-> req.payload,
                    again |-> /\ last.op = "create" /\ last.event = req.payload
                              /\ last.added,
                    added |-> r.ev.added, got |-> r.ev.got, now |-> clock,
                    refreshed |-> r.s.refr > 0,
                    response |-> r.response,
                    syncedBefore |-> Stamp(users),
                    syncedAfter |-> Stamp(r.s.users),
                    sameStamps |-> Stamps(r.s.users) = Stamps(users),
                    sameActs |-> r.s.acts = acts,
                    recomputed |-> r.s.prog > 0,
                    cachedBefore |-> feedCached, cachedAfter |-> r.s.feed,
                    armedBefore |-> triggers, armedAfter |-> r.s.trig]
  IN  /\ lock = 0
      /\ Done(DoPost(Store, lastWebhook, req, env, clock))
      /\ UNCHANGED <<clock, queue, lock, run>>

\* getRecentActivities: the feed is answered from the cache or read from the
\* Activities sheet and cached
ReadFeed ==
  /\ feedCached' = TRUE
  /\ last' = [op |-> "feed", source |-> IF feedCached THEN "cache" ELSE "sheet"]
  /\ UNCHANGED <<clock, users, cache, acts, participants, tok, queue, triggers, lastWebhook, lock, run>>

\* an activity event at doPost in the pipeline
PostIngest(req, env) ==
  LET Done(r) ==
        /\ Commit(r.s)
        /\ lastWebhook' = r.stamp
        /\ last' = [op |-> "post",
                    known |-> /\ r.ev.got = "object"
                              /\ req.payload.aspect_type = "create"
                              /\ OffersStored(acts, <<env.body>>)]
  IN  /\ lock = 0
      /\ Done(DoPost(Store, lastWebhook, req, env, clock))
      /\ UNCHANGED <<clock, queue, lock, run>>

-----------------------------------------------------------------------------
(* ImportService *)

MaxLinks == 2   \* links in one payload of processStravaLinks
MaxRows == 3    \* rows of the Activities sheet in the import scenarios

\* What a link of the payload leads to: an entry without url, a page that
\* cannot be downloaded, a page without activity data, or the public page of
\* activity a with sport type ty.
LinkPages ==
  { [kind |-> k, id |-> 0, type |-> "none"] : k \in {"nourl", "failed", "unparsed"} }
  \cup { [kind |-> "activity", id |-> a, type |-> ty] : a \in ActIds, ty \in {"Swim", "Run"} }

\* ImportService._parseActivityPage: the details read from the page; they
\* have no visibility, so that column of the row stays empty
ParseActivityPage(page) ==
  [id |-> page.id, athlete_id |-> Owner(page.id), type |-> page.type,
   visibility |-> "", distance |-> 100]

RECURSIVE ImportedActivities(_, _)
\* the loop of processStravaLinks over the payload, from entry i on
ImportedActivities(links, i) ==
  IF i > Len(links) THEN <<>>
  ELSE (IF links[i].kind = "activity" THEN <<ParseActivityPage(links[i])>> ELSE <<>>)
       \o ImportedActivities(links, i + 1)

\* ImportService.processStravaLinks: [s, success, activitiesCount]
ProcessStravaLinks(s, links) ==
  LET importedActivities == ImportedActivities(links, 1)
  IN  [s |-> IF Len(importedActivities) > 0
             THEN InvalidateActivityCaches([s EXCEPT !.acts = s.acts \o importedActivities])
             ELSE s,
       success |-> TRUE,
       activitiesCount |-> Len(importedActivities)]

\* callApi('processStravaLinks', payload)
ImportCall(links) ==
  LET Done(r) ==
        /\ Commit(r.s)
        /\ last' = [op |-> "import", links |-> links,
                    success |-> r.success, count |-> r.activitiesCount,
                    idsBefore |-> ExistingActivityIds(acts),
                    appended |-> SubSeq(r.s.acts, Len(acts) + 1, Len(r.s.acts)),
                    kept |-> SubSeq(r.s.acts, 1, Len(acts)) = acts]
  IN  /\ Len(acts) + Len(links) <= MaxRows
      /\ Done(ProcessStravaLinks(Store, links))
      /\ UNCHANGED <<clock, queue, lastWebhook, lock, run>>

-----------------------------------------------------------------------------
(* Specifications *)

Drain(p) ==
  \/ DrainStart(p)
  \/ DrainRead(p)
  \/ \E env \in SyncEnvs(Head(run[p].todo \o <<UnknownUser>>)) : DrainSync(p, env)
  \/ DrainFinish(p)

\* the pipeline: syncActivitiesForUser, processActivitySyncQueue and webhook
\* activity events, one after the other
Next ==
  \/ Idle /\ \E uid \in SyncUsers, forceSync \in BOOLEAN :
               \E env \in SyncEnvs(uid) : SyncIngest(uid, forceSync, env)
  \/ Idle /\ \E req \in ActivityEvents : \E env \in PostEnvs(req) : PostIngest(req, env)
  \/ Drain(1)

Spec == Init /\ [][Next]_vars

\* addSingleActivityToSheet on its own
NextAdd == \E a \in AddInputs : AddCall(a)

SpecAdd == Init /\ [][NextAdd]_vars

\* the webhook entry point on its own, with WORKER_SHARED_SECRET set
NextPost ==
  \E req \in Requests : req.configured /\ \E env \in PostEnvs(req) : Post(req, env)

SpecPost == Init /\ [][NextPost]_vars

\* activity events and readers of the feed
NextFeed ==
  \/ \E req \in ActivityEvents : \E env \in PostEnvs(req) : Post(req, env)
  \/ ReadFeed

SpecFeed == Init /\ [][NextFeed]_vars

\* the queue: enqueueUsersForSync and processActivitySyncQueue, one after the other
NextQueue ==
  \/ Idle /\ \E ids \in EnqueueInputs : EnqueueCall(ids)
  \/ Drain(1)

SpecQueue == InitQueue /\ [][NextQueue]_vars

\* executions of processActivitySyncQueue and enqueueUsersForSync that overlap
NextOverlap ==
  \/ \E p \in Runs : Drain(p)
  \/ \E ids \in EnqueueInputs : EnqueueCall(ids)

SpecOverlap == Init /\ [][NextOverlap]_vars

\* syncActivitiesForUser over time
NextClock ==
  \/ Tick
  \/ \E uid \in SyncUsers, forceSync \in BOOLEAN :
       \E env \in SyncEnvs(uid) : SyncCall(uid, forceSync, env)

SpecClock == Init /\ [][NextClock]_vars

\* the users syncActivitiesForUser is called for over time: a member from the
\* sheet, one the OAuth callback creates, and an unknown id
RunUsers == {1, NumUsers + 1, UnknownUser}

\* rows stored by earlier ingests of the member's activities
StoredBefore ==
  { Activity(a, <<"Swim", "everyone">>, 100) : a \in { x \in ActIds : Owner(x) = 1 } }

\* syncActivitiesForUser for members old and new, over time
NextSync ==
  \/ Tick
  \/ \E a \in StoredBefore : AddCall(a)
  \/ \E uid \in CallbackUsers, outcome \in {"ok", "denied", "throw"} : AuthCallback(uid, outcome)
  \/ \E uid \in RunUsers, forceSync \in BOOLEAN :
       \E env \in SyncEnvs(uid) : SyncRun(uid, forceSync, env)

SpecSync == Init /\ [][NextSync]_vars

\* the activity events a member's proxy forwards with the right secret
HealthEvents ==
  { req \in ActivityEvents :
      /\ req.secret = WORKER_SHARED_SECRET
      /\ req.payload.aspect_type \in {"create", "delete"}
      /\ req.payload.object_id = 1 }

\* the health check over time, with webhook events and enqueueUsersForSync
NextMonitor ==
  \/ TickHalfDay
  \/ MonitorCall
  \/ \E req \in HealthEvents : \E env \in PostEnvs(req) : Post(req, env)
  \/ \E ids \in EnqueueInputs : EnqueueCall(ids)

SpecMonitor == Init /\ [][NextMonitor]_vars

\* the queue and its trigger: enqueue, drain, health check and webhook events,
\* one after the other
NextHealth ==
  \/ Idle /\ \E ids \in EnqueueInputs : EnqueueCall(ids)
  \/ Drain(1)
  \/ Idle /\ MonitorCall
  \/ Idle /\ \E req \in HealthEvents : \E env \in PostEnvs(req) : Post(req, env)

SpecHealth == Init /\ [][NextHealth]_vars

\* the remote has nothing new for the user, or cannot be reached
QuietEnvs == { Env(TRUE, r, TRUE, "200", <<>>) : r \in {"200", "throw"} }

\* processActivitySyncQueue while the remote is quiet
DrainQuiet(p) ==
  \/ DrainStart(p)
  \/ DrainRead(p)
  \/ \E env \in QuietEnvs : DrainSync(p, env)
  \/ DrainFinish(p)

\* requests that tell the answers of doPost apart
AnswerRequests ==
  { req \in Requests :
      /\ req.payload.object_id \in {0, 1}
      /\ req.payload.owner_id \in {0, 1}
      /\ req.payload.aspect_type \in {"none", "create", "update", "delete"}
      /\ req.payload.updates \in {"none", "authorized_false"} }

\* the webhook entry point while processActivitySyncQueue runs
NextAnswer ==
  \/ \E req \in AnswerRequests : \E env \in PostEnvs(req) : Post(req, env)
  \/ \E req \in AnswerRequests : PostLockTimeout(req)
  \/ DrainQuiet(1)

SpecAnswer == Init /\ [][NextAnswer]_vars

\* executions that arm and disarm the drain trigger and overlap
NextArm ==
  \/ \E p \in Runs : MonitorBegin(p)
  \/ \E p \in Runs, ids \in EnqueueInputs : EnqueueBegin(p, ids)
  \/ \E p \in Runs : ArmCreate(p)
  \/ \E p \in Runs : DrainQuiet(p)
  \/ \E req \in HealthEvents : \E env \in PostEnvs(req) : Post(req, env)

SpecArm == Init /\ [][NextArm]_vars

\* GET requests at the proxy and at the web app
NextGet ==
  \/ \E q \in Queries, v \in VerifyTokens : ProxyGet(q, v)
  \/ \E q \in Queries, v \in VerifyTokens : AppGet(q, v)

SpecGet == Init /\ [][NextGet]_vars

\* requests at the proxy
NextProxy ==
  \/ \E q \in Queries, v \in VerifyTokens : ProxyGet(q, v)
  \/ \E m \in {"POST", "PUT"}, json \in BOOLEAN, pl \in Payloads,
        sec \in {WORKER_SHARED_SECRET, Unset} :
          (json \/ pl = NoPayload) /\ ProxyPost(m, json, pl, sec)
  \/ \E outcome \in {"ok", "failed", "throw"} : ForwardSettle(outcome)

SpecProxy == Init /\ [][NextProxy]_vars

\* ingests of activities by executions that overlap
NextIngest ==
  \/ \E p \in Runs, by \in {"webhook", "drain"}, a \in ActIds, sh \in RemoteShapes :
       IngestCheck(p, by, Activity(a, sh, 100))
  \/ \E p \in Runs : IngestAppend(p)

SpecIngest == Init /\ [][NextIngest]_vars

\* authenticated create and update events of activity 1, with the feed read,
\* the health check and time passing in between
CreateEvents ==
  { req \in ActivityEvents :
      /\ req.secret = WORKER_SHARED_SECRET
      /\ req.payload.aspect_type \in {"create", "update"}
      /\ req.payload.object_id = 1 }

\* a create event for an owner with no row, and so no access token, in the
\* Database sheet
OrphanEvents ==
  { req \in Requests :
      /\ req.configured /\ req.json /\ req.secret = WORKER_SHARED_SECRET
      /\ req.payload.object_type = "activity"
      /\ req.payload.aspect_type = "create"
      /\ req.payload.owner_id = UnknownUser }

NextCreate ==
  \/ \E req \in CreateEvents \cup OrphanEvents :
       \E env \in PostEnvs(req) : PostCreate(req, env)
  \/ ReadFeed
  \/ MonitorCall
  \/ Tick

SpecCreate == Init /\ [][NextCreate]_vars

\* syncActivitiesForUser for a member and for an unknown id, with the feed
\* read, the health check and time passing in between
NextStamp ==
  \/ Tick
  \/ ReadFeed
  \/ MonitorCall
  \/ \E uid \in {1, UnknownUser}, forceSync \in BOOLEAN :
       \E env \in SyncEnvs(uid) : SyncStamp(uid, forceSync, env)

SpecStamp == Init /\ [][NextStamp]_vars

\* the lists the remote activity client returns
NextList == \E uid \in SyncUsers : \E env \in SyncEnvs(uid) : ListReturn(uid, env)

SpecList == Init /\ [][NextList]_vars

\* the queue from an empty Database sheet on: drains, enqueueUsersForSync, the
\* health check and athletes coming back from the authorization page
NextEmpty ==
  \/ DrainQuiet(1)
  \/ Idle /\ \E ids \in EnqueueInputs : EnqueueCall(ids)
  \/ Idle /\ MonitorCall
  \/ Idle /\ \E uid \in CallbackUsers, outcome \in {"ok", "denied"} : AuthCallback(uid, outcome)

SpecEmpty == InitEmpty /\ [][NextEmpty]_vars

\* the athletes that come back from the authorization page while the queue is
\* in use: two members and one with no row yet
ReturningUsers == {1, NumQueueUsers - 1, NumQueueUsers + 1}

\* the values in the queue: drains and authorization callbacks, one after the
\* other
NextIds ==
  \/ \E k \in 0..MAX_USERS_PER_RUN : DrainIds(k)
  \/ \E uid \in ReturningUsers, outcome \in {"ok", "denied"} : AuthCallbackId(uid, outcome)
  \/ Tick

SpecIds == InitQueue /\ [][NextIds]_vars

\* runs of processActivitySyncQueue that overlap while the remote is quiet
NextLocked == \E p \in Runs : DrainQuiet(p)

SpecLocked == Init /\ [][NextLocked]_vars

\* runs of processActivitySyncQueue and athletes coming back from the
\* authorization page, overlapping, while the remote is quiet
NextLost ==
  \/ \E p \in Runs : DrainQuiet(p)
  \/ \E uid \in CallbackUsers, outcome \in {"ok", "denied"} : AuthCallback(uid, outcome)

SpecLost == Init /\ [][NextLost]_vars

\* the drain trigger fires: a run of processActivitySyncQueue starts
TriggerFires(p) == triggers > 0 /\ DrainStart(p)

\* a run that has started goes on to its end
DrainGoesOn(p) ==
  \/ DrainRead(p)
  \/ \E env \in QuietEnvs : DrainSync(p, env)
  \/ DrainFinish(p)

\* the queue served by its trigger: enqueueUsersForSync and the health check
\* arm the trigger, the trigger starts the runs, and the request of a sync
\* answers an empty list or fails at network level
NextLive ==
  \/ TriggerFires(1)
  \/ DrainGoesOn(1)
  \/ Idle /\ \E ids \in EnqueueInputs : EnqueueCall(ids)
  \/ Idle /\ MonitorCall

\* an armed trigger fires, a run that started ends, and the health check
\* keeps running
SpecLive ==
  /\ Init /\ [][NextLive]_vars
  /\ WF_vars(TriggerFires(1))
  /\ WF_vars(DrainGoesOn(1))
  /\ WF_vars(Idle /\ MonitorCall)

\* what the remote does during a sync of the cache checks: it answers with no
\* activity or with one allowed activity of the user, or the request fails at
\* network level
CacheEnvs(uid) ==
  { Env(TRUE, "200", TRUE, "200", b) :
      b \in { <<>> } \cup { <<Activity(a, <<"Swim", "everyone">>, 100)>> :
                              a \in { x \in ActIds : Owner(x) = uid } } }
  \cup { Env(TRUE, "throw", TRUE, "200", <<>>) }

\* the operations that change the Activities sheet, and readers of the feed,
\* one after the other
NextCache ==
  \/ Idle /\ \E req \in CreateEvents \cup HealthEvents :
               \E env \in PostEnvs(req) : Post(req, env)
  \/ Idle /\ ReadFeed
  \/ DrainStart(1)
  \/ DrainRead(1)
  \/ \E env \in CacheEnvs(Head(run[1].todo \o <<UnknownUser>>)) : DrainSync(1, env)
  \/ DrainFinish(1)

SpecCache == Init /\ [][NextCache]_vars

\* the events of HealthEvents sent with a wrong secret
ForgedEvents == { [req EXCEPT !.secret = "wrong"] : req \in HealthEvents }

\* webhook events with the right and with a wrong secret, the health check
\* and enqueueUsersForSync over time
NextReject ==
  \/ TickHalfDay
  \/ MonitorCall
  \/ \E req \in HealthEvents \cup ForgedEvents : \E env \in PostEnvs(req) : Post(req, env)
  \/ EnqueueCall(<<1>>)

SpecReject == Init /\ [][NextReject]_vars

\* ingests of activity 1 that may overlap, and authenticated create and update
\* events of activity 1
NextRevise ==
  \/ \E p \in Runs, by \in {"webhook", "drain"}, sh \in RemoteShapes :
       IngestCheck(p, by, Activity(1, sh, 100))
  \/ \E p \in Runs : IngestAppend(p)
  \/ \E req \in CreateEvents : \E env \in PostEnvs(req) : Post(req, env)

SpecRevise == Init /\ [][NextRevise]_vars

\* user 1 has joined the active challenge before any activity was stored
InitJoined ==
  /\ participants = [u \in {1} |-> 0]
  /\ clock = 0
  /\ users = [u \in 1..NumUsers |-> NewUser]
  /\ cache = NoCache
  /\ acts = <<>>
  /\ tok = 1
  /\ queue = <<>>
  /\ triggers = 0
  /\ lastWebhook = NoTime
  /\ feedCached = FALSE
  /\ lock = 0
  /\ run = [p \in Runs |-> IdleRun]
  /\ last = [op |-> "none"]

\* the authenticated activity events of members
MemberEvents == { req \in ActivityEvents : req.secret = WORKER_SHARED_SECRET }

\* webhook activity events while a member takes part in a challenge
NextProgress ==
  \E req \in MemberEvents : \E env \in PostEnvs(req) : Post(req, env)

SpecProgress == InitJoined /\ [][NextProgress]_vars

\* payloads of at most MaxLinks links
LinkPayloads ==
  UNION { [1..n -> LinkPages] : n \in 0..MaxLinks }

\* manual imports, activities added by the API path and readers of the feed
NextImport ==
  \/ \E links \in LinkPayloads : ImportCall(links)
  \/ \E a \in StoredBefore : Len(acts) < MaxRows /\ AddCall(a)
  \/ ReadFeed

SpecImport == Init /\ [][NextImport]_vars

\* the remote activity client on its own
NextClient ==
  \/ \E uid \in SyncUsers : \E env \in SyncEnvs(uid) : ListCall(uid, env)
  \/ \E uid \in SyncUsers, a \in ActIds : \E env \in FetchEnvs(uid, a) : ByIdCall(uid, a, env)

SpecClient == Init /\ [][NextClient]_vars

-----------------------------------------------------------------------------
(* Properties *)

\* C1: in every state reached by syncActivitiesForUser, processActivitySyncQueue
\* and webhook activity create / update / delete events that do not overlap,
\* the Activities sheet holds at most one row per remote activity id.
OneRecordPerActivityId ==
  \A i, j \in 1..Len(acts) : acts[i].id = acts[j].id => i = j

\* a sync or a create event has offered an activity whose id was stored, and
\* the sheet holds rows
StoredIdOfferedAgain ==
  /\ last.op \in {"sync", "post"}
  /\ last.known
  /\ Len(acts) >= 1

AddedTwice == last.op = "add" /\ last.second

PassesFilter(a) ==
  /\ a.id # 0
  /\ a.type \in {"Swim"}
  /\ a.visibility \in {"everyone", "followers_only"}

UpdateEventHandled ==
  /\ last.op = "post"
  /\ last.routed
  /\ last.payload.object_type = "activity"
  /\ last.payload.aspect_type = "update"
  /\ last.payload.owner_id = Owner(last.payload.object_id)

\* C4: when a row with id X is stored and an update event for X has been
\* handled, the sheet holds exactly one row with id X, and its distance is the
\* one the remote holds (the remote version being one the filter admits).
UpdateReplacesRecord ==
  (/\ UpdateEventHandled
   /\ last.had = 1
   /\ (last.got = "object" => PassesFilter(last.body)))
  => /\ CountId(acts, last.payload.object_id) = 1
     /\ (last.got = "object" =>
          \A i \in 1..Len(acts) :
            acts[i].id = last.payload.object_id => acts[i].distance = last.body.distance)

InCriticalSection(p) == run[p].pc \in {"locked", "sync"}

\* C6: no two executions of processActivitySyncQueue are at the same time past
\* the lock acquisition and before the write of the remaining queue, and an
\* execution that refilled the queue holds the script lock while it syncs.
DrainsAreExclusive ==
  /\ \A p, q \in Runs : InCriticalSection(p) /\ InCriticalSection(q) => p = q
  /\ \A p \in Runs : run[p].pc = "sync" /\ run[p].refilled => lock = p

\* C6, first part alone
NoTwoDrainsInside ==
  \A p, q \in Runs : InCriticalSection(p) /\ InCriticalSection(q) => p = q

FirstOf(q) == SubSeq(q, 1, Min(Len(q), MAX_USERS_PER_RUN))
RestOf(q) == SubSeq(q, Min(Len(q), MAX_USERS_PER_RUN) + 1, Len(q))

\* a run of processActivitySyncQueue has ended and no other has begun
DrainEnded == Idle /\ last.op = "drain" /\ last.outcome \in {"done", "error"}

\* C7: a run of processActivitySyncQueue that found the queue q non-empty has
\* called syncActivitiesForUser for the first min(5, |q|) entries of q in
\* order, and has written the rest of q, in order, as the queue.
DrainSyncsFirstFive ==
  (DrainEnded /\ ~last.refilled)
  => /\ last.synced = FirstOf(last.start)
     /\ last.persisted = RestOf(last.start)
     /\ queue = RestOf(last.start)

\* C8: a run of processActivitySyncQueue that found the queue empty while
\* users exist has refilled it with the id of every user, synced the first
\* min(5, n) of them and written the rest as the queue.
RefillSyncsAndPersists ==
  (DrainEnded /\ last.refilled)
  => /\ last.start = InRowOrder(DOMAIN users)
     /\ last.synced = FirstOf(last.start)
     /\ last.persisted = RestOf(last.start)
     /\ queue = RestOf(last.start)

SecondSyncWithin ==
  last.op = "sync" /\ last.again /\ last.within

\* C9 as stated: of two calls syncActivitiesForUser(id, false) within
\* UPDATE_INTERVAL_HOURS only the first performs the remote fetch; a second
\* call with forceSync = true performs it.
OnlyFirstCallFetches ==
  (SecondSyncWithin /\ last.prevFetched)
  => IF last.force THEN last.fetched ELSE ~last.fetched

\* C9: when a call syncActivitiesForUser(id, false) has added an activity, a
\* second call without forceSync within UPDATE_INTERVAL_HOURS returns false
\* without a remote fetch; a second call with forceSync = true for a stored
\* user is not throttled and performs the fetch.
ThrottleAfterAdd ==
  SecondSyncWithin =>
    /\ ((~last.force /\ last.prevRet = "true")
          => ~last.fetched /\ last.why = "recent" /\ last.ret = "false")
    /\ ((last.force /\ last.user \in DOMAIN users)
          => last.fetched /\ last.why # "recent")

\* a second call without forceSync was throttled after a first that added
ThrottledSecondCall ==
  /\ SecondSyncWithin
  /\ ~last.force
  /\ last.prevRet = "true"
  /\ last.prevFetched
  /\ ~last.fetched

\* C10: within one call of getAthleteActivities or getActivityById a 401 is
\* followed by exactly one refreshAccessToken and, the refresh having given a
\* token, one retried request; when the retry does not return 200 the call
\* ends as a failure; there is no further refresh and no further request.
RetriesOnceThenFails ==
  (last.op \in {"list", "byid"} /\ last.hadToken /\ last.r1 = "401")
  => /\ last.refr = 1
     /\ last.reqs = IF last.newToken THEN 2 ELSE 1
     /\ ((last.newToken /\ last.r2 # "200") => last.kind \in {"null", "throw"})

\* the rows a call appends when the remote answers body and before is stored:
\* the activities of body that pass the filter and whose id is not in before
NewRows(before, body) ==
  LET fresh == SelectSeq(body, LAMBDA x : PassesFilter(x) /\ CountId(before, x.id) = 0)
  IN  [i \in 1..Len(fresh) |-> PreparedActivity(fresh[i])]

FirstForcedSync ==
  last.op = "syncrun" /\ last.never /\ last.force /\ last.delivered

\* C11: after syncActivitiesForUser(U, forceSync = true) for a user whose
\* LAST_UPDATED is empty, against a remote that answers with the list S, the
\* rows added to the Activities sheet are exactly the members of S that pass
\* the type and visibility filter and whose id was not stored; when there is
\* such a row, U's LAST_UPDATED is the time of the call and the call returned
\* true.
FirstSyncStoresFiltered ==
  FirstForcedSync =>
    /\ acts = last.before \o NewRows(last.before, last.body)
    /\ (NewRows(last.before, last.body) # <<>> =>
          /\ users[last.user].lastUpdated = last.now
          /\ last.ret = "true")

\* such a call whose list of two holds one activity stored already and one
\* that is new and allowed, and a call whose second activity alone is new
FirstSyncStoresOneOfTwo ==
  /\ FirstForcedSync
  /\ Len(last.body) = 2
  /\ CountId(last.before, last.body[1].id) = 1
  /\ Len(NewRows(last.before, last.body)) = 1
  /\ last.now > 0

DeleteEvent ==
  /\ last.op = "post" /\ last.routed
  /\ last.payload.object_type = "activity"
  /\ last.payload.aspect_type = "delete"

AtMostOneDrainTrigger == triggers <= 1

\* C16: a run of monitorWebhookHealth leaves a drain trigger armed when
\* LAST_WEBHOOK_TIMESTAMP is unset or more than 24 hours old, and otherwise
\* leaves the number of drain triggers as it was; a trigger armed before the
\* run is armed after it.
MonitorArmsWhenDown ==
  last.op = "monitor" =>
    /\ IF last.stamp = NoTime \/ last.now - last.stamp > HEALTH_THRESHOLD_HOURS
       THEN triggers >= 1
       ELSE triggers = last.before
    /\ (last.before >= 1 => triggers >= 1)

\* a run exactly 24 hours after the last event, with no trigger armed
MonitorAtThreshold ==
  /\ last.op = "monitor"
  /\ last.stamp # NoTime
  /\ last.now - last.stamp = HEALTH_THRESHOLD_HOURS
  /\ last.before = 0

AuthenticatedEvent ==
  /\ last.op = "post" /\ last.configured /\ last.json
  /\ last.secret = WORKER_SHARED_SECRET
  /\ last.payload # NoPayload

\* C14: after every authenticated webhook event LAST_WEBHOOK_TIMESTAMP is the
\* time of the request, whatever the event was and however its processing
\* ended.
EveryEventStamps == AuthenticatedEvent => lastWebhook = last.now

AthleteEvent == AuthenticatedEvent /\ last.payload.object_type = "athlete"

\* C15: after an authenticated athlete "update" event whose updates say
\* authorized: "false", the access and refresh tokens stored for the athlete
\* are empty; an athlete event without updates changes no user row and is
\* answered "Success".
DeauthorizationClearsTokens ==
  /\ (AthleteEvent /\ last.payload.aspect_type = "update"
        /\ last.payload.updates = "authorized_false" =>
        /\ users[last.payload.owner_id].accessToken = 0
        /\ users[last.payload.owner_id].refreshToken = 0)
  /\ (AthleteEvent /\ last.payload.updates = "none" =>
        ~last.usersChanged /\ last.response = "Success")

Stranded == queue # <<>> /\ triggers = 0

\* C17 as stated: whenever the persisted queue is non-empty a drain trigger is
\* armed.
QueueHasTrigger == queue # <<>> => triggers >= 1

\* C17: among enqueue, drain, health-check and webhook operations that do not
\* overlap, the only step that leaves a non-empty queue without a drain
\* trigger is a webhook event that added an activity.
OnlyWebhookAddStrands ==
  [][ (Stranded' /\ ~Stranded) => (last'.op = "post" /\ last'.added) ]_vars

\* a drain that ended with users left in the queue and the trigger armed
DrainLeavesQueueArmed ==
  DrainEnded /\ queue # <<>> /\ triggers >= 1

\* C18: doPost answers every request with "Authentication Failed", "Success"
\* or the error text; "Success" only when the secret matched and processing
\* raised no exception; while WORKER_SHARED_SECRET is not set every request
\* gets the error text and no event is processed.
AnswersOneOfThree ==
  last.op = "post" =>
    /\ last.response \in {"Authentication Failed", "Success", "Error processing request"}
    /\ (last.response = "Success" =>
          last.secret = WORKER_SHARED_SECRET /\ last.routed /\ last.got # "throw")
    /\ (~last.configured =>
          /\ last.response = "Error processing request"
          /\ ~last.routed /\ ~last.changed /\ ~last.usersChanged)

\* C19: a run of processActivitySyncQueue calls syncActivitiesForUser for
\* every user it popped from the queue, also when the sync of one of them
\* failed.
EveryPoppedUserIsSynced ==
  (last.op = "drain" /\ last.outcome \in {"done", "error"})
  => \A i \in 1..Len(FirstOf(last.start)) :
       \E j \in 1..Len(last.synced) : last.synced[j] = FirstOf(last.start)[i]

\* C20: the first fetch of syncActivitiesForUser for a user never synced, such
\* as one the OAuth callback has just created, looks back 30 days; a fetch that
\* follows a fetch for the same user looks back daysToSync (3) days.
FirstFetchLooksBackThirtyDays ==
  (last.op = "syncrun" /\ last.fetched)
  => /\ (last.never \/ last.created => last.days = FIRST_SYNC_DAYS)
     /\ (~last.never /\ ~last.created => last.days = DEFAULT_DAYS_TO_SYNC)

\* C21: a GET request that carries a challenge is answered with the JSON
\* object {"hub.challenge": <that challenge>} exactly when hub.mode is
\* "subscribe" and hub.verify_token equals the configured verify token, by the
\* proxy and by doGet alike; every other request gets another answer.
HandshakeAnswersChallenge ==
  (last.op = "get" /\ last.query.challenge # Missing)
  => ((last.body = "json" /\ last.challenge = last.query.challenge)
        <=> (/\ last.query.mode = "subscribe"
             /\ last.configured = STRAVA_VERIFY_TOKEN
             /\ last.query.token = last.configured))

\* doGet answered a handshake with the challenge it received
AppAnsweredChallenge ==
  /\ last.op = "get" /\ last.at = "app"
  /\ last.body = "json" /\ last.challenge = "c2"

ValidPost == last.op = "proxy" /\ last.method = "POST" /\ last.json

\* C22: a POST with a body that parses is answered 200 "EVENT_RECEIVED" while
\* the forward is still pending; the payload is sent to the web app once,
\* wrapped with the shared secret, and the answer and the number of forwards
\* stay as they are however the forward ends.
ProxyAnswersAndForwardsOnce ==
  ValidPost =>
    /\ last.x.status = 200 /\ last.x.body = "EVENT_RECEIVED"
    /\ last.x.forwards = 1
    /\ last.x.sent.strava_payload = last.payload
    /\ (last.secret # Unset => last.x.sent.secret = last.secret)

\* the forward of an answered POST failed
ForwardFailedAfterAnswer ==
  ValidPost /\ last.x.status = 200 /\ last.x.outcome \in {"failed", "throw"}

\* C23: two ingests of one activity id that overlap can both pass the look-up
\* of the id before either appends, and the sheet then holds two rows for the
\* id: every append is made by an ingest that read the sheet without the id,
\* and it leaves a second row for the id exactly when another ingest appended
\* the id after that read.
SecondRowOnlyByOverlap ==
  [][\A p \in Runs :
       (run[p].pc = "append" /\ run'[p].pc = "idle")
       => /\ IdKey(run[p].activity.id) \notin run[p].seen
          /\ (CountId(acts', run[p].activity.id) > 1
                <=> IdKey(run[p].activity.id) \in ExistingActivityIds(acts))]_vars

\* the drain appended an activity the webhook had appended after the drain's
\* read of the sheet
TwoRowsAfterOverlap ==
  /\ last.op = "ingest" /\ last.step = "append"
  /\ last.by = "drain" /\ last.after = "webhook"
  /\ CountId(acts, last.arg.id) = 2

\* C24: after an authenticated create or update event of an activity, when the
\* ingest added the activity the owner's LAST_UPDATED is the time of the event,
\* the owner's challenge progress was computed again, the activity caches are
\* invalid and no drain trigger is left; when it added nothing, LAST_UPDATED,
\* the challenge progress, the caches and the triggers are as before.
CreateEffectsFollowIngest ==
  last.op = "create"
  => IF last.added
     THEN /\ last.syncedAfter = last.now
          /\ last.recomputed
          /\ ~last.cachedAfter
          /\ last.armedAfter = 0
     ELSE /\ last.syncedAfter = last.syncedBefore
          /\ ~last.recomputed
          /\ last.cachedAfter = last.cachedBefore
          /\ last.armedAfter = last.armedBefore

\* C25: a call of syncActivitiesForUser that added no activity leaves the
\* user's LAST_UPDATED as it was.
SyncStampsOnlyWhenAdded ==
  (last.op = "stamp" /\ ~last.grew) => last.after = last.before

\* the user id is unknown, or the call is not forced and the user was updated
\* less than UPDATE_INTERVAL_HOURS ago
NothingToSync ==
  /\ last.op = "stamp"
  /\ \/ ~last.known
     \/ /\ ~last.force
        /\ last.before # NoTime
        /\ last.now - last.before < UPDATE_INTERVAL_HOURS

\* C26 as stated: such a call returns false, makes no remote request and
\* leaves users, activities, triggers and every cache as they were.
SkippedSyncChangesNothing ==
  NothingToSync
  => /\ last.ret = "false"
     /\ last.reqs = 0 /\ last.refr = 0
     /\ last.sameUsers /\ last.sameActs /\ last.sameTriggers
     /\ last.sameFeed /\ last.sameCache

\* C26: such a call returns false, makes no remote request and leaves users,
\* activities, triggers and the activity caches as they were; the member
\* cache is as it was or holds the user table the call read.
SkippedSyncOnlyFillsMemberCache ==
  NothingToSync
  => /\ last.ret = "false"
     /\ last.reqs = 0 /\ last.refr = 0
     /\ last.sameUsers /\ last.sameActs /\ last.sameTriggers
     /\ last.sameFeed /\ last.cacheFilled

\* a call for a user updated two hours before, with the drain trigger armed
\* and the feed cached
ThrottledWhileArmed ==
  /\ NothingToSync /\ last.known
  /\ last.now - last.before = TickHours
  /\ triggers = 1 /\ feedCached

\* C27: every activity in the list getAthleteActivities returns has a type in
\* ALLOWED_ACTIVITY_TYPES and a visibility in ALLOWED_VISIBILITY.
ReturnedListPassesFilter ==
  (last.op = "listed" /\ last.kind = "list")
  => \A i \in 1..Len(last.list) :
       IsAllowedType(last.list[i]) /\ IsAllowedVisibility(last.list[i])

\* C28: a run of processActivitySyncQueue that does not obtain the script lock
\* returns with the queue, the Activities sheet, the users, the triggers and
\* the caches as they were, and with no user synced.
LockedOutDrainChangesNothing ==
  [][(last' # last /\ last'.op = "drain" /\ last'.outcome = "nolock")
     => /\ lock # 0 /\ lock # last'.by
        /\ last'.synced = <<>>
        /\ UNCHANGED <<queue, acts, users, tok, triggers, cache, feedCached,
                       lastWebhook, lock, run>>]_vars

\* a run was turned away while the other run was syncing the users it took
\* from the queue
DrainTurnedAway ==
  /\ last.op = "drain" /\ last.outcome = "nolock"
  /\ lock # 0 /\ lock # last.by
  /\ run[lock].pc = "sync" /\ run[lock].synced # <<>>
  /\ queue # <<>>

NoUsersDrain == last.op = "drain" /\ last.outcome = "nousers"

\* C29: a run of processActivitySyncQueue that finds the queue empty and no
\* user in the Database sheet syncs nobody and ends with the queue empty and
\* no drain trigger; while there is no user, the queue stays empty and the
\* trigger stays away until enqueueUsersForSync (called directly or by the
\* authorization callback) or the health check arms it.
EmptyDrainDisarms ==
  /\ [](NoUsersDrain
        => /\ last.start = <<>> /\ last.synced = <<>>
           /\ queue = <<>> /\ triggers = 0)
  /\ [][(/\ DOMAIN users = {}
         /\ queue = <<>> /\ triggers = 0
         /\ ~(queue' = <<>> /\ triggers' = 0))
        => last'.op \in {"enqueue", "monitor", "callback"}]_vars

\* such a run has ended and another run has taken the lock since
DisarmedAndDrainedAgain ==
  /\ NoUsersDrain
  /\ DOMAIN users = {}
  /\ queue = <<>> /\ triggers = 0
  /\ run[1].pc = "locked"

\* C30: after any sequence of enqueueUsersForSync and
\* processActivitySyncQueue calls that do not overlap, no user is in the
\* persisted queue more than once, also when the authorization callback and
\* the refill from the Database sheet have both enqueued the user.
NoUserTwiceInQueue ==
  \A i, j \in 1..Len(queue) : queue[i].v = queue[j].v => i = j

\* C31: an authenticated create event whose owner has no stored access token,
\* or whose fetch of the activity fails, leaves the Activities sheet, the
\* LAST_UPDATED of every user and the drain triggers as they were, and doPost
\* answers "Success".
FailedCreateChangesNothing ==
  (/\ last.op = "create" /\ last.aspect = "create"
   /\ last.got \in {"notoken", "null", "throw"})
  => /\ last.sameActs
     /\ last.sameStamps
     /\ last.armedAfter = last.armedBefore
     /\ last.response = "Success"

\* C32: when refreshAccessToken succeeded during a call of
\* syncActivitiesForUser, the access token and the refresh token stored for
\* the user when the call returns are the ones the refresh issued.
RefreshedTokensSurviveSync ==
  (last.op = "stamp" /\ last.issued # 0)
  => last.tokens = <<last.issued, last.issued>>

\* C33: a user id leaves the persisted queue only at the end of a run of
\* processActivitySyncQueue that has popped it and called
\* syncActivitiesForUser for it.
QueuedIdLeavesOnlyWhenSynced ==
  [][\A x \in SeqToSet(queue) \ SeqToSet(queue') :
       \E p \in Runs : /\ run[p].pc = "sync" /\ run'[p].pc = "idle"
                       /\ x \in SeqToSet(run[p].synced)]_vars

\* syncActivitiesForUser has been called for x by a run of
\* processActivitySyncQueue
PassedToSync(x) ==
  \/ x \in SeqToSet(run[1].synced)
  \/ last.op = "drain" /\ x \in SeqToSet(last.synced)

\* C34: every user id in the queue is eventually popped and passed to
\* syncActivitiesForUser, when armed triggers fire and the health check keeps
\* running, also when the sync of an earlier entry fails on every run.
EveryQueuedUserIsSynced ==
  \A x \in 1..NumUsers : (x \in SeqToSet(queue)) ~> PassedToSync(x)

\* C35, webhook events: an event that changed the Activities sheet has left
\* the activity caches invalid
ChangingEventInvalidates ==
  (last.op = "post" /\ last.changed) => ~feedCached

\* C35, drains: a run of processActivitySyncQueue that added an activity ends
\* with the activity caches invalid
AddingDrainInvalidates ==
  [][(run[1].pc = "sync" /\ run'[1].pc = "idle" /\ run[1].added) => ~feedCached']_vars

\* C35: every operation that changed the Activities sheet (a webhook create,
\* update or delete, a drain that added an activity) has invalidated the
\* activity caches when it returns, also an update that deleted the record
\* without adding it again and a drain that ended in an exception.
EveryChangeInvalidates ==
  []ChangingEventInvalidates /\ AddingDrainInvalidates

\* C36: a request doPost rejects for a wrong secret is answered
\* "Authentication Failed" and leaves LAST_WEBHOOK_TIMESTAMP, the drain
\* triggers, the queue, the users and the Activities sheet as they were, so
\* the health check decides as before.
RejectedRequestChangesNothing ==
  [][(/\ last' # last
      /\ last'.op = "post" /\ last'.configured /\ last'.json
      /\ last'.secret # WORKER_SHARED_SECRET)
     => /\ last'.response = "Authentication Failed"
        /\ UNCHANGED <<lastWebhook, triggers, queue, users, acts>>
        /\ WebhookDown(lastWebhook', clock') = WebhookDown(lastWebhook, clock)]_vars

\* a forged event was rejected more than a day after the last authenticated
\* one, with the trigger armed and the queue in use
ForgedEventAfterSilence ==
  /\ last.op = "post" /\ last.secret = "wrong"
  /\ last.response = "Authentication Failed"
  /\ lastWebhook # NoTime
  /\ WebhookDown(lastWebhook, clock)
  /\ triggers = 1 /\ queue # <<>>

\* C37: when an authenticated create event is handled again right after a
\* handling that added its activity, the second handling adds nothing and
\* leaves the Activities sheet, the owner's LAST_UPDATED and the drain
\* triggers as the first left them, and does not compute the challenge
\* progress again.
SecondDeliveryChangesNothing ==
  (last.op = "create" /\ last.aspect = "create" /\ last.again)
  => /\ ~last.added
     /\ last.sameActs
     /\ last.syncedAfter = last.syncedBefore
     /\ last.armedAfter = last.armedBefore
     /\ ~last.recomputed

\* C38: when an authenticated update event of an activity has been handled
\* and the activity fetched for it fails the type or visibility filter, the
\* Activities sheet holds no row with the id of that activity.
RevisedOutOfFilterIsGone ==
  (/\ UpdateEventHandled
   /\ last.got = "object"
   /\ ~PassesFilter(last.body))
  => CountId(acts, last.payload.object_id) = 0

ActivityEventHandled ==
  /\ last.op = "post"
  /\ last.routed
  /\ last.payload.object_type = "activity"
  /\ last.payload.aspect_type \in {"create", "update", "delete"}

\* C39: when a webhook create, update or delete event of an activity has been
\* handled, the Progress stored for its owner in the active challenge the
\* owner joined is the sum of the distances of the owner's rows in the
\* Activities sheet.
ProgressFollowsActivities ==
  (ActivityEventHandled /\ last.payload.owner_id \in DOMAIN participants)
  => participants[last.payload.owner_id]
       = SumDistance(acts, 1, last.payload.owner_id)

\* C40: a call of ImportService.processStravaLinks appends no row whose id
\* was in the Activities sheet before the call or occurs in an earlier
\* appended row, and no row whose type the filter does not allow (the rows
\* read from public pages carry no visibility).
ImportKeepsActivityRules ==
  last.op = "import" =>
    \A i \in 1..Len(last.appended) :
      /\ IdKey(last.appended[i].id) \notin last.idsBefore
      /\ \A j \in 1..(i - 1) : last.appended[j].id # last.appended[i].id
      /\ last.appended[i].type \in ALLOWED_ACTIVITY_TYPES

====
